---- MODULE Spec2Model ----
(***************************************************************************)
(* A model of the deterministic terrain-generation core of                 *)
(* threejs_map_generator: the multi-stream RNG (rng.js), the sea-level     *)
(* quantile solver (quantile.js), Bridson's Poisson disk sampler           *)
(* (poisson.js) and its stratified variant, the tree placement             *)
(* (treePlacement.js) with its post-placement validation and the           *)
(* renderer's call of it, the generation pipeline                          *)
(* (terrainGeneratorV1_1.js) with its water metrics, and the hydraulic     *)
(* erosion (erosion.js).                                                   *)
(*                                                                         *)
(* Each subsystem has its own variables, initial predicate, next-state     *)
(* relation and specification; a specification leaves the variables of the *)
(* other subsystems at their idle values.                                  *)
(***************************************************************************)
EXTENDS Integers, Sequences, FiniteSets, TLC

VARIABLES
    rng,        \* the MultiStreamRNG object: masterSeed, streams, subSeeds
    draws,      \* per label: next() calls since the stream was created or reset
    field0,     \* the height field handed to the sea-level solver
    epsilon,    \* WATER_EPSILON, in height units
    solved,     \* per target percentage: the solver's result on a copy of field0
    ps,         \* one call of poissonDiskSampling: arguments, locals, position
    terrainData, \* generateTreePositions: the terrain it is given
    config,     \* generateTreePositions: the configuration it is given
    trees,      \* one call of generateTreePositions: locals, position, result
    gen,        \* the TerrainGeneratorV1_1 objects: fields, position in generate()
    validation, \* one call of validateTreePositions: arguments, position, result
    spawn,      \* two renderers: the terrain handed over, each call of _spawnLowPolyTreesV1_1
    strat,      \* one call of stratifiedPoissonSampling: arguments, stratum, samples
    coverage,   \* generate(): the field at phase 3, the sea level result, the water metrics
    erosion,    \* one call of HydraulicErosion.erode: the height field, the flow, the iteration
    lakes,      \* one call of _addLakes: the lake centres
    d8,         \* one call of HydraulicErosion._calculateFlow
    thermal,    \* one call of applyThermalErosion
    curve,      \* a PiecewiseLinearCurve and its last evaluation
    lcg         \* one LCG object and its last call

rngVars == <<rng, draws>>
seaVars == <<field0, epsilon, solved>>
poissonVars == <<ps>>
treeVars == <<terrainData, config, trees>>
genVars == <<gen>>
validationVars == <<validation>>
spawnVars == <<spawn>>
stratVars == <<strat>>
coverageVars == <<coverage>>
erosionVars == <<erosion>>
lakesVars == <<lakes>>
flowVars == <<d8>>
thermalVars == <<thermal>>
curveVars == <<curve>>
lcgVars == <<lcg>>

vars == <<rng, draws, field0, epsilon, solved, ps, terrainData, config, trees, gen, validation, spawn, strat, coverage, erosion, lakes, d8, thermal, curve, lcg>>

notRngVars == <<seaVars, poissonVars, treeVars, genVars, validationVars, spawnVars, stratVars, coverageVars, erosionVars, lakesVars, flowVars, thermalVars, curveVars, lcgVars>>
notSeaVars == <<rngVars, poissonVars, treeVars, genVars, validationVars, spawnVars, stratVars, coverageVars, erosionVars, lakesVars, flowVars, thermalVars, curveVars, lcgVars>>
notPoissonVars == <<rngVars, seaVars, treeVars, genVars, validationVars, spawnVars, stratVars, coverageVars, erosionVars, lakesVars, flowVars, thermalVars, curveVars, lcgVars>>
notTreeVars == <<rngVars, seaVars, genVars, validationVars, spawnVars, stratVars, coverageVars, erosionVars, lakesVars, flowVars, thermalVars, curveVars, lcgVars>>
notGenVars == <<rngVars, seaVars, poissonVars, treeVars, validationVars, spawnVars, stratVars, coverageVars, erosionVars, lakesVars, flowVars, thermalVars, curveVars, lcgVars>>
notValidationVars == <<rngVars, seaVars, poissonVars, treeVars, genVars, spawnVars, stratVars, coverageVars, erosionVars, lakesVars, flowVars, thermalVars, curveVars, lcgVars>>
notSpawnVars == <<rngVars, seaVars, poissonVars, treeVars, genVars, validationVars, stratVars, coverageVars, erosionVars, lakesVars, flowVars, thermalVars, curveVars, lcgVars>>
notStratVars == <<rngVars, seaVars, poissonVars, treeVars, genVars, validationVars, spawnVars, coverageVars, erosionVars, lakesVars, flowVars, thermalVars, curveVars, lcgVars>>
notCoverageVars == <<rngVars, seaVars, poissonVars, treeVars, genVars, validationVars, spawnVars, stratVars, erosionVars, lakesVars, flowVars, thermalVars, curveVars, lcgVars>>
notErosionVars == <<rngVars, seaVars, poissonVars, treeVars, genVars, validationVars, spawnVars, stratVars, coverageVars, lakesVars, flowVars, thermalVars, curveVars, lcgVars>>
notLakesVars == <<rngVars, seaVars, poissonVars, treeVars, genVars, validationVars, spawnVars, stratVars, coverageVars, erosionVars, flowVars, thermalVars, curveVars, lcgVars>>
notFlowVars == <<rngVars, seaVars, poissonVars, treeVars, genVars, validationVars, spawnVars, stratVars, coverageVars, erosionVars, lakesVars, thermalVars, curveVars, lcgVars>>
notThermalVars == <<rngVars, seaVars, poissonVars, treeVars, genVars, validationVars, spawnVars, stratVars, coverageVars, erosionVars, lakesVars, flowVars, curveVars, lcgVars>>
notCurveVars == <<rngVars, seaVars, poissonVars, treeVars, genVars, validationVars, spawnVars, stratVars, coverageVars, erosionVars, lakesVars, flowVars, thermalVars, lcgVars>>
notLcgVars == <<rngVars, seaVars, poissonVars, treeVars, genVars, validationVars, spawnVars, stratVars, coverageVars, erosionVars, lakesVars, flowVars, thermalVars, curveVars>>

None == "none"

(***************************************************************************)
(* 32-bit words.  TLC's integers are 32-bit signed, so an unsigned 32-bit  *)
(* value is kept as <<hi, lo>>, two 16-bit halves, and every product is    *)
(* split so that no intermediate value exceeds 2^31.                       *)
(***************************************************************************)
Half == 65536

MkWord(hi, lo) == <<hi, lo>>

\* TLC passes arguments unevaluated; the word operations bind their operands
\* through one-element sets, which evaluates them first and keeps the
\* evaluation of a chain of word operations shallow.

\* bit i of a
Bit(a, i) == (a \div (2 ^ i)) % 2

\* bit i of a ^ b, in place
XorBit(a, b, i) == ((Bit(a, i) + Bit(b, i)) % 2) * (2 ^ i)

Xor16(a, b) ==
    ((XorBit(a, b, 0) + XorBit(a, b, 1)) + (XorBit(a, b, 2) + XorBit(a, b, 3))
     + ((XorBit(a, b, 4) + XorBit(a, b, 5)) + (XorBit(a, b, 6) + XorBit(a, b, 7))))
    + ((XorBit(a, b, 8) + XorBit(a, b, 9)) + (XorBit(a, b, 10) + XorBit(a, b, 11))
       + ((XorBit(a, b, 12) + XorBit(a, b, 13))
          + (XorBit(a, b, 14) + XorBit(a, b, 15))))

\* x ^ y
WXor(x, y) ==
    CHOOSE w \in {MkWord(Xor16(a[1], b[1]), Xor16(a[2], b[2])) :
                    a \in {x}, b \in {y}} : TRUE

\* x >>> 13
WShr13(x) ==
    CHOOSE w \in {MkWord(a[1] \div 8192, ((a[1] % 8192) * 8) + (a[2] \div 8192)) :
                    a \in {x}} : TRUE

\* x >>> 16
WShr16(x) == CHOOSE w \in {MkWord(0, a[1]) : a \in {x}} : TRUE

\* the low 16 bits of a * b, for 16-bit a and b
MulLo16(a, b) == ((a * (b % 256)) + (((a * (b \div 256)) % 256) * 256)) % Half

\* the full 32-bit product of 16-bit a and b
MulFull16(a, b) ==
    LET prod0 == a * (b % 256)
        prod1 == a * (b \div 256)
        prodLo == ((prod1 % 256) * 256) + prod0
    IN  MkWord((prod1 \div 256) + (prodLo \div Half), prodLo % Half)

\* Math.imul(x, y): the low 32 bits of the product
WMul(x, y) ==
    CHOOSE w \in {MkWord((full[1] + MulLo16(a[1], b[2]) + MulLo16(a[2], b[1])) % Half,
                         full[2]) :
                    a \in {x}, b \in {y}, full \in {MulFull16(x[2], y[2])}} : TRUE

\* (x + y) mod 2^32
WAdd(x, y) ==
    CHOOSE w \in {MkWord((a[1] + b[1] + ((a[2] + b[2]) \div Half)) % Half,
                         (a[2] + b[2]) % Half) :
                    a \in {x}, b \in {y}} : TRUE

(***************************************************************************)
(* rng.js: hashSeed, LCG, MultiStreamRNG                                   *)
(***************************************************************************)
Golden == MkWord(40503, 31161)        \* 0x9e3779b9
MixMul == MkWord(34283, 51819)        \* 0x85ebca6b
AvalancheMul == MkWord(49842, 44597)  \* 0xc2b2ae35
LibcMul == MkWord(16838, 20077)       \* 1103515245, the multiplier of C's rand()
LcgMul == MkWord(25, 26125)           \* 1664525
LcgInc == MkWord(15470, 62303)        \* 1013904223

Labels == {"terrain", "lakes", "trees"}

\* every label the code asks a stream for
StreamLabels == Labels \cup {"erosion", "moisture", "temperature"}

\* label.charCodeAt(i), i = 0 .. label.length - 1
CharCodes(label) ==
    CASE label = "terrain" -> <<116, 101, 114, 114, 97, 105, 110>>
      [] label = "lakes" -> <<108, 97, 107, 101, 115>>
      [] label = "trees" -> <<116, 114, 101, 101, 115>>
      [] label = "erosion" -> <<101, 114, 111, 115, 105, 111, 110>>
      [] label = "moisture" -> <<109, 111, 105, 115, 116, 117, 114, 101>>
      [] label = "temperature" ->
            <<116, 101, 109, 112, 101, 114, 97, 116, 117, 114, 101>>

\* one round of the label loop of hashSeed
MixChar(hash, c) ==
    LET mixed == WXor(hash, MkWord(0, c))
        multiplied == WMul(mixed, MixMul)
    IN  WXor(multiplied, WShr13(multiplied))

\* the label loop of hashSeed: the hash after all characters
MixLabel(hash, codes) ==
    LET mix[i \in 0 .. Len(codes)] ==
            IF i = 0 THEN hash ELSE MixChar(mix[i - 1], codes[i])
    IN  mix[Len(codes)]

hashSeed(seed, label) ==
    LET h0 == WXor(seed, Golden)
        h1 == MixLabel(h0, CharCodes(label))
        h2 == WMul(h1, AvalancheMul)
    IN  WXor(h2, WShr16(h2))

\* LCG.next(): the new state
LcgStep(state) == WAdd(WMul(state, LcgMul), LcgInc)

\* the state after n calls of next()
LcgIter(state, n) ==
    LET iter[i \in 0 .. n] == IF i = 0 THEN state ELSE LcgStep(iter[i - 1])
    IN  iter[n]

\* n calls of next() as one map state -> state * mul + inc, by doubling
LcgAffine(n) ==
    LET aff[i \in 0 .. n] ==
            IF i = 0 THEN <<MkWord(0, 1), MkWord(0, 0)>>
            ELSE IF i % 2 = 0
                 THEN LET h == aff[i \div 2]
                      IN  <<WMul(h[1], h[1]), WAdd(WMul(h[1], h[2]), h[2])>>
                 ELSE LET h == aff[i - 1]
                      IN  <<WMul(LcgMul, h[1]), WAdd(WMul(LcgMul, h[2]), LcgInc)>>
    IN  aff[n]

\* the state after n calls of next(), n large
LcgSkip(state, n) == WAdd(WMul(state, LcgAffine(n)[1]), LcgAffine(n)[2])

\* new MultiStreamRNG(masterSeed)
NewRng(seed) ==
    [masterSeed |-> seed,
     streams |-> [l \in StreamLabels |-> None],
     subSeeds |-> [l \in StreamLabels |-> None]]

\* getStream(label) creating every time: the stream restarts on each request
getStreamAlwaysNew(r, label) ==
    LET sub == hashSeed(r.masterSeed, label)
    IN  [r EXCEPT !.subSeeds[label] = sub, !.streams[label] = sub]

\* MultiStreamRNG.getStream(label): the object after the call
getStream(r, label) ==
    IF r.streams[label] = None
    THEN LET sub == hashSeed(r.masterSeed, label)
         IN  [r EXCEPT !.subSeeds[label] = sub, !.streams[label] = sub]
    ELSE r

\* the stream's LCG draws once
streamNext(r, label) == [r EXCEPT !.streams[label] = LcgStep(@)]

\* MultiStreamRNG.resetStream(label)
resetStream(r, label) ==
    IF r.streams[label] # None
    THEN [r EXCEPT !.streams[label] = r.subSeeds[label]]
    ELSE r

\* MultiStreamRNG.resetAll()
resetAll(r) ==
    [r EXCEPT !.streams = [l \in StreamLabels |-> None],
              !.subSeeds = [l \in StreamLabels |-> None]]

(***************************************************************************)
(* The RNG object under any sequence of calls                              *)
(***************************************************************************)
MaxDraws == 3

\* 12345, 0, 4294967295, and 2942267312 (0xAF5F6FB0)
Seeds == {MkWord(0, 12345), MkWord(0, 0), MkWord(65535, 65535), MkWord(44895, 28592)}

InitRng ==
    /\ rng \in {NewRng(s) : s \in Seeds}
    /\ draws = [l \in Labels |-> 0]

GetStream(l) ==
    /\ rng' = getStream(rng, l)
    /\ draws' = IF rng.streams[l] = None THEN [draws EXCEPT ![l] = 0] ELSE draws
    /\ UNCHANGED notRngVars

StreamNext(l) ==
    /\ rng.streams[l] # None
    /\ draws[l] < MaxDraws
    /\ rng' = streamNext(rng, l)
    /\ draws' = [draws EXCEPT ![l] = @ + 1]
    /\ UNCHANGED notRngVars

ResetStream(l) ==
    /\ rng' = resetStream(rng, l)
    /\ draws' = [draws EXCEPT ![l] = 0]
    /\ UNCHANGED notRngVars

ResetAll ==
    /\ rng' = resetAll(rng)
    /\ draws' = [l \in Labels |-> 0]
    /\ UNCHANGED notRngVars

NextRng ==
    \/ \E l \in Labels : GetStream(l)
    \/ \E l \in Labels : StreamNext(l)
    \/ \E l \in Labels : ResetStream(l)
    \/ ResetAll


(***************************************************************************)
(* quantile.js: findQuantile, solveSeaLevel                                *)
(*                                                                         *)
(* Heights are whole numbers of height units (one unit = 0.01 m, the       *)
(* default WATER_EPSILON).  The quantile interpolates with a weight that   *)
(* is a whole number of hundredths, so a sea level is kept exactly as a    *)
(* whole number of hundredths of a unit: seaLevel * SeaScale.              *)
(***************************************************************************)
SeaScale == 100

SeqMin(data) == CHOOSE m \in {data[i] : i \in DOMAIN data} :
                    \A i \in DOMAIN data : m <= data[i]

SeqMax(data) == CHOOSE m \in {data[i] : i \in DOMAIN data} :
                    \A i \in DOMAIN data : m >= data[i]

\* the comparator reversed: (a, b) => b - a
SortDescending(data) == SortSeq(data, LAMBDA a, b : a > b)

\* Array.from(data).sort((a, b) => a - b)
SortAscending(data) == SortSeq(data, LAMBDA a, b : a < b)

Thrown == [error |-> "Quantile must be between 0 and 1"]

\* findQuantile(data, p / 100), times SeaScale
findQuantile(data, p) ==
    IF p < 0 \/ p > 100 THEN Thrown
    ELSE IF Len(data) = 0 THEN 0
    ELSE LET sorted == SortAscending(data)
             position == p * (Len(data) - 1)      \* in hundredths
             lower == position \div 100
             weight == position % 100
             upper == IF weight = 0 THEN lower ELSE lower + 1
         IN  IF p = 0 THEN sorted[1] * SeaScale
             ELSE IF p = 100 THEN sorted[Len(sorted)] * SeaScale
             ELSE sorted[lower + 1] * (100 - weight) + sorted[upper + 1] * weight

\* the cells with elevationData[i] <= seaLevel
CellsAtOrBelow(data, sea) ==
    Cardinality({i \in DOMAIN data : data[i] * SeaScale <= sea})

Unsolved == [method |-> "unsolved"]

\* the 0% branch with the sea level put above the minimum instead of below
solveZeroSignSlip(data, eps) ==
    LET minHeight == SeqMin(data)
    IN  [seaLevel |-> (minHeight + eps) * SeaScale,
         cellsBelowSeaLevel |-> 0,
         raised |-> Cardinality({i \in DOMAIN data : data[i] < minHeight + eps}),
         method |-> "0%_raise",
         field |-> [i \in DOMAIN data |->
                        IF data[i] < minHeight + eps THEN minHeight + eps
                        ELSE data[i]]]

\* solveSeaLevel, targetWaterPercentage === 0
solveZero(data, eps) ==
    LET minHeight == SeqMin(data)
    IN  [seaLevel |-> (minHeight - eps) * SeaScale,
         cellsBelowSeaLevel |-> 0,
         raised |-> Cardinality({i \in DOMAIN data : data[i] < minHeight + eps}),
         method |-> "0%_raise",
         field |-> [i \in DOMAIN data |->
                        IF data[i] < minHeight + eps THEN minHeight + eps
                        ELSE data[i]]]

\* solveSeaLevel(elevationData, targetWaterPercentage, epsilon): the result
\* record, with the field as the call leaves it.  actualPercentage is
\* cellsBelowSeaLevel / totalCells * 100 and is read off those two.
solveSeaLevel(data, p, eps) ==
    IF p = 0 THEN solveZero(data, eps)
    ELSE IF p >= 100 THEN
        [seaLevel |-> (SeqMax(data) + eps) * SeaScale,
         cellsBelowSeaLevel |-> Len(data),
         raised |-> 0,
         method |-> "100%_cover",
         field |-> data]
    ELSE
        [seaLevel |-> findQuantile(data, p),
         cellsBelowSeaLevel |-> CellsAtOrBelow(data, findQuantile(data, p)),
         raised |-> 0,
         method |-> "quantile",
         field |-> data]

(***************************************************************************)
(* The solver on every small field, and on a 20-cell terrain whose lowest  *)
(* cells share one height (the floor of carved lakes)                      *)
(***************************************************************************)
MaxCells == 4
MaxH == 3
MaxPlateau == 10

TerrainCells == 20        \* cells of the plateau terrains

Targets == {0, 15, 50, 85, 100}

Epsilons == {1, 2}

SmallFields == UNION {[1 .. n -> 0 .. MaxH] : n \in 1 .. MaxCells}

\* k cells at height 0, the others at 1, 2, 3, ...
PlateauField(k) == [i \in 1 .. TerrainCells |-> IF i <= k THEN 0 ELSE i - k]

PlateauFields == {PlateauField(k) : k \in 1 .. MaxPlateau}

InitSea ==
    /\ field0 \in SmallFields \cup PlateauFields
    /\ epsilon \in Epsilons
    /\ solved = [p \in Targets |-> Unsolved]

IdleSea ==
    /\ field0 = <<0>>
    /\ epsilon = 1
    /\ solved = [p \in Targets |-> Unsolved]

IdleRng ==
    /\ rng = NewRng(MkWord(0, 0))
    /\ draws = [l \in Labels |-> 0]

\* one call of solveSeaLevel on a fresh copy of the field
SolveSeaLevel(p) ==
    /\ solved[p] = Unsolved
    /\ solved' = [solved EXCEPT ![p] = solveSeaLevel(field0, p, epsilon)]
    /\ UNCHANGED <<field0, epsilon>>
    /\ UNCHANGED notSeaVars

NextSea == \E p \in Targets : SolveSeaLevel(p)

(***************************************************************************)
(* poisson.js: poissonDiskSampling (Bridson's algorithm)                   *)
(*                                                                         *)
(* Points lie on the integer lattice of the domain; minDistance is given   *)
(* by its square, rSq.  The background grid has cells of size              *)
(* minDistance / sqrt(2), so floor(x / cellSize) is the largest g with     *)
(* g * g * rSq <= 2 * x * x, computed exactly.  Every value of rng() is an *)
(* input: the initial point is any lattice point of the domain, the active *)
(* index any index, a candidate any lattice point of the annulus           *)
(* minDistance <= d < 2 * minDistance around the picked point.             *)
(***************************************************************************)
Max(a, b) == IF a > b THEN a ELSE b

InitialRetries == 100

MaxCountedDraws == 2

\* the calls of rng() are counted up to MaxCountedDraws
Counted(n) == IF n > MaxCountedDraws THEN MaxCountedDraws ELSE n

\* Math.floor(x / cellSize), x >= 0
CellOf(x, rSq) ==
    CHOOSE g \in 0 .. 2 * x :
        /\ g * g * rSq <= 2 * x * x
        /\ (g + 1) * (g + 1) * rSq > 2 * x * x

\* Math.ceil(width / cellSize)
GridSize(w, rSq) == CHOOSE g \in 0 .. 2 * w + 1 :
        /\ g * g * rSq >= 2 * w * w
        /\ g = 0 \/ (g - 1) * (g - 1) * rSq < 2 * w * w

\* new Array(gridWidth * gridHeight).fill(null): a cell holding no point
NoPoint == <<>>

DistSq(a, b) == (a[1] - b[1]) * (a[1] - b[1]) + (a[2] - b[2]) * (a[2] - b[2])

\* suitabilityMask && !suitabilityMask(x, y)
MaskRejects(q, pt) == q.hasMask /\ pt \notin q.allowed

\* gridIndex(x, y)
gridIndex(q, pt) ==
    LET gcx == CellOf(pt[1], q.rSq)
        gcy == CellOf(pt[2], q.rSq)
    IN  IF gcx >= q.gridWidth \/ gcy >= q.gridHeight THEN -1
        ELSE gcy * q.gridWidth + gcx

\* the neighbourhood test of isValid over the cells within reach of (gx, gy)
NoCloseNeighbor(q, pt, reach) ==
    LET gcx == CellOf(pt[1], q.rSq)
        gcy == CellOf(pt[2], q.rSq)
    IN  \A ddy \in -reach .. reach, ddx \in -reach .. reach :
            LET nx == gcx + ddx
                ny == gcy + ddy
            IN  (nx < 0 \/ nx >= q.gridWidth \/ ny < 0 \/ ny >= q.gridHeight)
                \/ q.grid[ny * q.gridWidth + nx] = NoPoint
                \/ DistSq(pt, q.grid[ny * q.gridWidth + nx]) >= q.rSq

InBounds(q, pt) ==
    pt[1] >= 0 /\ pt[1] < q.width /\ pt[2] >= 0 /\ pt[2] < q.height

\* isValid looking only at the 3x3 neighbourhood
isValid3x3(q, pt) ==
    /\ InBounds(q, pt)
    /\ ~MaskRejects(q, pt)
    /\ NoCloseNeighbor(q, pt, 1)

\* isValid(x, y)
isValid(q, pt) ==
    /\ InBounds(q, pt)
    /\ ~MaskRejects(q, pt)
    /\ NoCloseNeighbor(q, pt, 2)

\* addPoint(x, y)
addPoint(q, pt) ==
    LET idx == gridIndex(q, pt)
    IN  [q EXCEPT !.samples = Append(@, pt),
                  !.active = Append(@, pt),
                  !.grid = IF idx >= 0 THEN [@ EXCEPT ![idx] = pt] ELSE @]

\* active.splice(index, 1)
Splice(seq, index) ==
    [k \in 1 .. Len(seq) - 1 |-> IF k < index THEN seq[k] ELSE seq[k + 1]]

\* the locals of poissonDiskSampling as the call starts
NewSampling(w, h, rSq, maxAttempts, hasMask, allowed) ==
    [width |-> w, height |-> h, rSq |-> rSq, maxAttempts |-> maxAttempts,
     hasMask |-> hasMask, allowed |-> allowed,
     gridWidth |-> GridSize(w, rSq), gridHeight |-> GridSize(h, rSq),
     grid |-> [c \in 0 .. GridSize(w, rSq) * GridSize(h, rSq) - 1 |-> NoPoint],
     samples |-> <<>>, active |-> <<>>,
     pc |-> "initial", attempts |-> 0, index |-> 0, i |-> 0, found |-> FALSE,
     rngCalls |-> 0]

\* where the call goes after the initial point or after one active point
AfterPoint(q) == IF Len(q.active) > 0 THEN "pick" ELSE "done"

\* one round of the do-while choosing the initial point, rng() having given
\* the lattice point pt; attempts is not read after the loop and is dropped
\* (set to 0) as the loop is left
initialRound(q, pt) ==
    LET n == q.attempts + 1
        center == <<q.width \div 2, q.height \div 2>>
        q0 == [q EXCEPT !.rngCalls = Counted(@ + 2)]
    IN  IF n > InitialRetries
        THEN IF MaskRejects(q0, center)
             THEN [q0 EXCEPT !.attempts = 0, !.pc = "done"]
             ELSE [addPoint(q0, center) EXCEPT !.attempts = 0, !.pc = "pick"]
        ELSE IF MaskRejects(q0, pt)
             THEN [q0 EXCEPT !.attempts = n]
             ELSE [addPoint(q0, pt) EXCEPT !.attempts = 0, !.pc = "pick"]

\* the start of one pass of the while loop: an active point is picked
pickActive(q, index) ==
    [q EXCEPT !.index = index, !.i = 0, !.found = FALSE, !.pc = "attempt",
              !.rngCalls = Counted(@ + 1)]

\* one pass of the for loop: the candidate pt around the picked point
attempt(q, pt) ==
    LET q0 == [q EXCEPT !.rngCalls = Counted(@ + 2), !.i = @ + 1]
    IN  IF isValid(q0, pt)
        THEN [addPoint(q0, pt) EXCEPT !.found = TRUE]
        ELSE q0

\* the end of the for loop without the splice
endAttemptsKeeping(q) == [q EXCEPT !.pc = AfterPoint(q)]

\* the end of the for loop: the point leaves the active list if nothing was found
endAttempts(q) ==
    LET q1 == IF q.found THEN q ELSE [q EXCEPT !.active = Splice(@, q.index)]
    IN  [q1 EXCEPT !.pc = AfterPoint(q1)]

\* the candidates tried around pt, which lie in the annulus
\* [minDistance, 2 * minDistance): those inside the domain, and for those
\* outside it, which isValid rejects alike, the farthest on each axis (a
\* candidate lies outside the domain only if one of these four does)
Candidates(q, pt) ==
    LET reach == CHOOSE m \in 0 .. 2 * q.rSq :
                     m * m < 4 * q.rSq /\ (m + 1) * (m + 1) >= 4 * q.rSq
        farthest == {<<pt[1] - reach, pt[2]>>, <<pt[1] + reach, pt[2]>>,
                     <<pt[1], pt[2] - reach>>, <<pt[1], pt[2] + reach>>}
    IN  {c \in (0 .. q.width - 1) \X (0 .. q.height - 1) :
            DistSq(c, pt) >= q.rSq /\ DistSq(c, pt) < 4 * q.rSq}
            \cup {c \in farthest : ~InBounds(q, c)}

Lattice(w, h) == (0 .. w - 1) \X (0 .. h - 1)

\* the values of (rng() * width, rng() * height), rng() being in [0, 1): 0 on
\* an axis of no extent
RandomPoints(w, h) == (0 .. Max(w, 1) - 1) \X (0 .. Max(h, 1) - 1)

(***************************************************************************)
(* One call of poissonDiskSampling on small domains                        *)
(***************************************************************************)
MaxAttempts == 2

Domains == {<<6, 2>>, <<3, 3>>, <<0, 2>>}

MinDistSqs == {4, 5}

\* the predicates tried: none, nothing suitable, only the right part,
\* everything but the centre
MaskKinds == {"none", "empty", "right", "notcenter"}

MaskOf(kind, w, h) ==
    CASE kind = "none" -> {}
      [] kind = "empty" -> {}
      [] kind = "right" -> {pt \in Lattice(w, h) : pt[1] >= 2}
      [] kind = "notcenter" -> Lattice(w, h) \ {<<w \div 2, h \div 2>>}

IdlePoisson == ps = [pc |-> "idle"]

InitPoisson ==
    \E d \in Domains, rSq \in MinDistSqs, m \in 0 .. MaxAttempts, k \in MaskKinds :
        ps = NewSampling(d[1], d[2], rSq, m, k # "none", MaskOf(k, d[1], d[2]))

InitialPoint ==
    /\ ps.pc = "initial"
    /\ \E pt \in RandomPoints(ps.width, ps.height) : ps' = initialRound(ps, pt)
    /\ UNCHANGED notPoissonVars

PickActive ==
    /\ ps.pc = "pick"
    /\ \E index \in 1 .. Len(ps.active) : ps' = pickActive(ps, index)
    /\ UNCHANGED notPoissonVars

Attempt ==
    /\ ps.pc = "attempt"
    /\ ps.i < ps.maxAttempts
    /\ \E pt \in Candidates(ps, ps.active[ps.index]) : ps' = attempt(ps, pt)
    /\ UNCHANGED notPoissonVars

EndAttempts ==
    /\ ps.pc = "attempt"
    /\ ps.i >= ps.maxAttempts
    /\ ps' = endAttempts(ps)
    /\ UNCHANGED notPoissonVars

NextPoisson ==
    \/ InitialPoint
    \/ PickActive
    \/ Attempt
    \/ EndAttempts

(***************************************************************************)
(* treePlacement: generateTreePositions                                    *)
(*                                                                         *)
(* Elevations, the sea level and the height limits are whole metres.  A    *)
(* slope is kept as the square of its tangent, a fraction <<num, den>>,    *)
(* and compared with the tangent of a limit in degrees.  A world position  *)
(* is a lattice point, so with cellSize 2 it lies on a cell corner or half *)
(* way between two; the interpolated height of getHeightAt is kept times   *)
(* HeightScale.                                                            *)
(***************************************************************************)
HeightScale == 4

\* the call passes maxAttempts = 30; the model passes TreeAttempts
TreeAttempts == 1

\* v || d
OrDefault(v, d) == IF v = 0 THEN d ELSE v

\* tan(deg)^2 as a fraction
TanSq(deg) ==
    CASE deg = 25 -> <<217443, 1000000>>
      [] deg = 35 -> <<490291, 1000000>>
      [] deg = 45 -> <<1, 1>>
      [] deg = 60 -> <<3, 1>>

\* slopeDegrees > deg
SlopeAbove(slope, deg) == slope[1] * TanSq(deg)[2] > TanSq(deg)[1] * slope[2]

\* slopeDegrees < deg
SlopeBelow(slope, deg) == slope[1] * TanSq(deg)[2] < TanSq(deg)[1] * slope[2]

\* elevation[y * width + x]
ElevationAt(td, x, y) == td.elevation[y * td.width + x + 1]

\* calculateSlopes: per cell, slopeMagnitude^2 = (dzdx^2 + dzdy^2)
calculateSlopes(td) ==
    [idx \in 1 .. td.width * td.height |->
        LET x == (idx - 1) % td.width
            y == (idx - 1) \div td.width
            hc == ElevationAt(td, x, y)
            hLeft == IF x > 0 THEN ElevationAt(td, x - 1, y) ELSE hc
            hRight == IF x < td.width - 1 THEN ElevationAt(td, x + 1, y) ELSE hc
            hUp == IF y > 0 THEN ElevationAt(td, x, y - 1) ELSE hc
            hDown == IF y < td.height - 1 THEN ElevationAt(td, x, y + 1) ELSE hc
        IN  <<(hRight - hLeft) * (hRight - hLeft) + (hDown - hUp) * (hDown - hUp),
              4 * td.cellSize * td.cellSize>>]

\* createTreeSuitabilityMask: the height tests, h < minHeight and h > maxHeight
strictHeightOk(h, seaLevel, cfg) ==
    /\ ~(h < seaLevel + OrDefault(cfg.TREE_BEACH_BUFFER, 2))
    /\ ~(h > OrDefault(cfg.TREE_MAX_HEIGHT, 60))

\* createTreeSuitabilityMask: the slope test, slopeDegrees > maxSlope
strictSlopeOk(slope, cfg) == ~SlopeAbove(slope, OrDefault(cfg.TREE_MAX_SLOPE, 35))

\* createTreeSuitabilityMask (treePlacement)
createTreeSuitabilityMask(td, slopes, cfg) ==
    [i \in 1 .. Len(td.elevation) |->
        IF strictHeightOk(td.elevation[i], td.seaLevel, cfg) /\ strictSlopeOk(slopes[i], cfg)
        THEN 1 ELSE 0]

\* slope.js createTreeSuitabilityMask, constraints being { maxHeight,
\* maxSlope, beachBuffer }: aboveWater && belowAlpine && notTooSteep
slopeModuleSuitabilityMask(td, slopes, constraints) ==
    [i \in 1 .. td.width * td.height |->
        IF /\ td.elevation[i] > td.seaLevel + constraints.beachBuffer
           /\ td.elevation[i] < constraints.maxHeight
           /\ SlopeBelow(slopes[i], constraints.maxSlope)
        THEN 1 ELSE 0]

\* the relaxed pass: h > relaxedMinHeight && h < (config.TREE_MAX_HEIGHT || 60)
relaxedHeightOk(h, seaLevel, cfg) ==
    /\ h > seaLevel + 1
    /\ h < OrDefault(cfg.TREE_MAX_HEIGHT, 60)

\* the relaxed pass: s <= relaxedMaxSlope
relaxedSlopeOk(slope) == ~SlopeAbove(slope, 45)

\* relaxedMask
relaxedMask(td, slopes, cfg) ==
    [i \in 1 .. Len(td.elevation) |->
        IF relaxedHeightOk(td.elevation[i], td.seaLevel, cfg) /\ relaxedSlopeOk(slopes[i])
        THEN 1 ELSE 0]

\* the cells of a mask that are > 0
CountSuitable(mask) == Cardinality({i \in DOMAIN mask : mask[i] > 0})

\* generateTreePositions with the forest check left out
beforeSamplingForestUnchecked(td, cfg) ==
    LET slopes == calculateSlopes(td)
        strict == createTreeSuitabilityMask(td, slopes, cfg)
        relaxed == relaxedMask(td, slopes, cfg)
        degenerate == CountSuitable(strict) = 0
        mask == IF degenerate THEN relaxed ELSE strict
        suitableCells == CountSuitable(mask)
        forestPercentage == OrDefault(cfg.FOREST_PERCENTAGE, 0)
    IN  [relaxPasses |-> IF degenerate THEN 1 ELSE 0,
         mask |-> mask,
         suitableCells |-> suitableCells,
         returned |-> suitableCells = 0,
         targetTreeCount |-> (suitableCells * forestPercentage) \div 300]

\* generateTreePositions, steps 1 to 4: what the call knows as it reaches
\* (or returns before) the sampler
beforeSampling(td, cfg) ==
    LET slopes == calculateSlopes(td)
        strict == createTreeSuitabilityMask(td, slopes, cfg)
        relaxed == relaxedMask(td, slopes, cfg)
        degenerate == CountSuitable(strict) = 0
        mask == IF degenerate THEN relaxed ELSE strict
        suitableCells == CountSuitable(mask)
        forestPercentage == OrDefault(cfg.FOREST_PERCENTAGE, 0)
    IN  [relaxPasses |-> IF degenerate THEN 1 ELSE 0,
         mask |-> mask,
         suitableCells |-> suitableCells,
         returned |-> suitableCells = 0 \/ forestPercentage <= 0,
         targetTreeCount |-> (suitableCells * forestPercentage) \div 300]

\* the cell holding a world coordinate: Math.floor(x / cellSize)
CellIndex(td, pt) ==
    (pt[2] \div td.cellSize) * td.width + (pt[1] \div td.cellSize) + 1

\* suitabilityFn as the set of lattice points it accepts
suitabilityFn(td, mask) ==
    {pt \in Lattice(td.width * td.cellSize, td.height * td.cellSize) :
        mask[CellIndex(td, pt)] > 0}

Clamp(v, lo, hi) == IF v < lo THEN lo ELSE IF v > hi THEN hi ELSE v

\* getHeightAt, times HeightScale
getHeightAt(pt, td) ==
    LET c == td.cellSize
        x0 == Clamp(pt[1] \div c, 0, td.width - 1)
        z0 == Clamp(pt[2] \div c, 0, td.height - 1)
        x1 == IF x0 + 1 > td.width - 1 THEN td.width - 1 ELSE x0 + 1
        z1 == IF z0 + 1 > td.height - 1 THEN td.height - 1 ELSE z0 + 1
        fx == pt[1] - c * x0      \* fx and fz, times cellSize
        fz == pt[2] - c * z0
        h00 == ElevationAt(td, x0, z0)
        h10 == ElevationAt(td, x1, z0)
        h01 == ElevationAt(td, x0, z1)
        h11 == ElevationAt(td, x1, z1)
        h0 == h00 * (c - fx) + h10 * fx
        h1 == h01 * (c - fx) + h11 * fx
    IN  ((h0 * (c - fz) + h1 * fz) * HeightScale) \div (c * c)

\* one placement of the result
Placement(pt, td) == [x |-> pt[1], z |-> pt[2], height |-> getHeightAt(pt, td)]

\* selectBestTreePositions: 0.7 * midElevationScore of a exceeds that of b by
\* 0.3 or more, so no pair of random scores puts b before a
SurelyBefore(a, b, td) ==
    LET off(p) == IF getHeightAt(p, td) >= 25 * HeightScale
                  THEN getHeightAt(p, td) - 25 * HeightScale
                  ELSE 25 * HeightScale - getHeightAt(p, td)
    IN  7 * (off(b) - off(a)) >= 75 * HeightScale

\* selectBestTreePositions: the results the random scores can give
selectBestTreePositions(candidates, targetCount, td) ==
    IF Len(candidates) <= targetCount
    THEN {[k \in 1 .. Len(candidates) |-> Placement(candidates[k], td)]}
    ELSE LET orders == {o \in [1 .. targetCount -> 1 .. Len(candidates)] :
                           /\ \A a, b \in 1 .. targetCount : a # b => o[a] # o[b]
                           /\ \A a, b \in 1 .. targetCount :
                                  a < b => ~SurelyBefore(candidates[o[b]], candidates[o[a]], td)
                           /\ \A a \in 1 .. targetCount, c \in 1 .. Len(candidates) :
                                  (\A b \in 1 .. targetCount : o[b] # c)
                                      => ~SurelyBefore(candidates[c], candidates[o[a]], td)}
         IN  {[k \in 1 .. targetCount |-> Placement(candidates[o[k]], td)] : o \in orders}

\* the draws selectBestTreePositions makes of the tree stream
scoreDraws(candidates, targetCount) ==
    IF Len(candidates) <= targetCount THEN 0 ELSE Counted(Len(candidates))

(***************************************************************************)
(* One call of generateTreePositions on small terrains                     *)
(***************************************************************************)
TreeGrids == {<<4, 1>>, <<6, 1>>}

TreeElevations == {0, 3, 4}

\* the heights of the cells of a grid: any of TreeElevations on the 4-cell
\* grid, a level meadow on the 6-cell one
ElevationsOn(g) == IF g[1] * g[2] > 4 THEN {3} ELSE TreeElevations

TreeSeaLevels == {0}

CellSizes == {1, 2}

TreeConfigs ==
    [FOREST_PERCENTAGE : {0, 100},
     TREE_MIN_SPACING : {6},
     TREE_MAX_HEIGHT : {0, 3},
     TREE_MAX_SLOPE : {0, 60},
     TREE_BEACH_BUFFER : {0, 1}]

IdleTrees ==
    /\ terrainData = None
    /\ config = None
    /\ trees = [pc |-> "idle"]

InitTrees ==
    /\ \E g \in TreeGrids, s \in TreeSeaLevels, c \in CellSizes :
          \E e \in [1 .. g[1] * g[2] -> ElevationsOn(g)] :
              terrainData = [elevation |-> e, seaLevel |-> s,
                             width |-> g[1], height |-> g[2], cellSize |-> c]
    /\ config \in TreeConfigs
    /\ trees = [pc |-> "called"]
    /\ IdlePoisson

\* generateTreePositions up to the call of poissonDiskSampling, or to its
\* return before that call
StartTrees ==
    /\ trees.pc = "called"
    /\ LET b == beforeSampling(terrainData, config)
           minSpacing == OrDefault(config.TREE_MIN_SPACING, 3)
       IN  IF b.returned
           THEN /\ trees' = [pc |-> "done", relaxPasses |-> b.relaxPasses,
                             suitableCells |-> b.suitableCells,
                             targetTreeCount |-> 0, samplerCalls |-> 0,
                             scoreDraws |-> 0, result |-> <<>>]
                /\ ps' = ps
           ELSE /\ trees' = [pc |-> "sampling", relaxPasses |-> b.relaxPasses,
                             suitableCells |-> b.suitableCells,
                             targetTreeCount |-> b.targetTreeCount,
                             samplerCalls |-> 1, scoreDraws |-> 0, result |-> <<>>]
                /\ ps' = NewSampling(terrainData.width * terrainData.cellSize,
                                     terrainData.height * terrainData.cellSize,
                                     minSpacing * minSpacing, TreeAttempts, TRUE,
                                     suitabilityFn(terrainData, b.mask))
    /\ UNCHANGED <<terrainData, config>>
    /\ UNCHANGED notTreeVars

\* generateTreePositions from the return of poissonDiskSampling to its own
SelectTrees ==
    /\ trees.pc = "sampling"
    /\ ps.pc = "done"
    /\ \E r \in selectBestTreePositions(ps.samples, trees.targetTreeCount, terrainData) :
          trees' = [trees EXCEPT !.pc = "done", !.result = r,
                                 !.scoreDraws = scoreDraws(ps.samples, trees.targetTreeCount)]
    /\ UNCHANGED <<terrainData, config, ps>>
    /\ UNCHANGED notTreeVars

NextTrees ==
    \/ StartTrees
    \/ InitialPoint
    \/ PickActive
    \/ Attempt
    \/ EndAttempts
    \/ SelectTrees

\* the values the call has drawn from rngStream, counted up to MaxCountedDraws
TreeStreamDraws ==
    IF trees.pc \in {"idle", "called"} THEN 0
    ELSE Counted((IF ps.pc = "idle" THEN 0 ELSE ps.rngCalls) + trees.scoreDraws)

(***************************************************************************)
(* terrainGeneratorV1_1.js: TerrainGeneratorV1_1.generate                  *)
(*                                                                         *)
(* Two generator objects, each with its own configuration and its own      *)
(* MultiStreamRNG.  generate() runs to completion, so one call never       *)
(* interleaves with the other.  A height is a whole number of units, 1.0   *)
(* being Unit of them; the noise, the contrast curve, the lake falloff and *)
(* the erosion amount are whole-number stand-ins for the floating-point    *)
(* functions, each a function of the same arguments as in the code.  Every *)
(* reading of performance.now() is an input.                               *)
(***************************************************************************)
Unit == 100

Instances == {1, 2}

Times == {1, 2}          \* what a difference of two clock readings can be

\* Math.floor(next() * n), state being the LCG state after next(); n < 2^15
FloorScaled(state, n) == (state[1] * n + (state[2] * n) \div Half) \div Half

\* LCG.nextInt(0, 1000000), state being the LCG state after its next():
\* floor(state * 10^6 / 2^32) = floor(state * 15625 / 2^26)
nextInt(state) == (state[1] * 15625 + (state[2] * 15625) \div Half) \div 1024

\* generateNoiseField: SimplexNoise(seed) builds its tables from the seed
\* alone; the field is a function of the seed, the band and the cell
generateNoiseField(width, height, seed, params) ==
    [i \in 1 .. width * height |->
        25 * (((seed % 1009) * (i + params.frequency) + i * i) % 5)]

\* the seed of a band taken from the clock
noiseSeedFromClock(state, now) == now

\* the seed of a band: terrainRng.nextInt(0, 1000000)
noiseSeed(state, now) == nextInt(state)

\* _normalizeArray and HydraulicErosion._normalize
normalizeArray(arr) ==
    LET range == SeqMax(arr) - SeqMin(arr)   \* -Infinity on an empty array
    IN  IF Len(arr) > 0 /\ range > 0
        THEN [i \in DOMAIN arr |-> ((arr[i] - SeqMin(arr)) * Unit) \div range]
        ELSE arr

\* Math.min(1, Math.max(0, Math.pow(e, 0.9)))
contrast(e) == Clamp(e + (e * (Unit - e)) \div (10 * Unit), 0, Unit)

\* ELEVATION_PRESETS, points as <<x, y>> in units
SHARP_ALPS == <<<<0, 0>>, <<50, 30>>, <<70, 50>>, <<90, 80>>, <<100, 100>>>>

LINEAR == <<<<0, 0>>, <<100, 100>>>>

\* getPreset(name)
getPreset(name) == IF name = "SHARP_ALPS" THEN SHARP_ALPS ELSE LINEAR

\* PiecewiseLinearCurve.evaluate(x)
evaluate(points, x0) ==
    LET x == Clamp(x0, 0, Unit)
        segments == {s \in 1 .. Len(points) - 1 :
                        x >= points[s][1] /\ x <= points[s + 1][1]}
    IN  IF segments = {} THEN points[Len(points)][2]
        ELSE LET s == CHOOSE m \in segments : \A o \in segments : m <= o
                 p0 == points[s]
                 p1 == points[s + 1]
             IN  p0[2] + ((x - p0[1]) * (p1[2] - p0[2])) \div (p1[1] - p0[1])

\* lakes asked for by the forest setting
lakesWantedByForest(cfg) == ~(cfg.FOREST_PERCENTAGE <= 0)

\* _addLakes: if (this.config.WATER_PERCENTAGE <= 0) return
lakesWanted(cfg) == ~(cfg.WATER_PERCENTAGE <= 0)

\* _addLakes up to the call of _carveLake: the 'lakes' stream and the lake.
\* LAKE_MIN_SPACING exceeds the diagonal of the map, so the sampler returns
\* its initial point alone, after 2 draws for it, 1 for the pick and 2 for
\* each of the 30 candidates, which all fall outside the map.  sizeVariation
\* is in thousandths.
lakeOf(cfg, width, height, r0) ==
    LET r1 == getStream(r0, "lakes")
        sx == LcgStep(r1.streams["lakes"])
        sy == LcgStep(sx)
        sSize == LcgStep(LcgSkip(sy, 1 + 2 * 30))
        sDepth == LcgStep(sSize)
    IN  [rng |-> [r1 EXCEPT !.streams["lakes"] = sDepth],
         lake |-> [cx |-> FloorScaled(sx, width),
                   cy |-> FloorScaled(sy, height),
                   cellsPerLake |-> (cfg.WATER_PERCENTAGE * width * height) \div 100,
                   sizeVariation |-> 700 + FloorScaled(sSize, 600),
                   depth |-> cfg.LAKE_DEPTH_MIN
                                + FloorScaled(sDepth, cfg.LAKE_DEPTH_MAX - cfg.LAKE_DEPTH_MIN)]]

\* _carveLake: dist < 1.0 for cell n, with squareness 2 and
\* radius^2 = cellsPerLake / pi * sizeVariation^2, pi as 355/113
insideLake(width, lake, n) ==
    LET dx == ((n - 1) % width) - lake.cx
        dy == ((n - 1) \div width) - lake.cy
    IN  (dx * dx + dy * dy) * 355000000
           < lake.cellsPerLake * lake.sizeVariation * lake.sizeVariation * 113

\* _carveLake: targetHeight of cell n inside the lake, state being the
\* stream after the draw of the edge noise
targetHeight(cfg, width, lake, n, state) ==
    LET dx == ((n - 1) % width) - lake.cx
        dy == ((n - 1) \div width) - lake.cy
        rr == lake.cellsPerLake * lake.sizeVariation * lake.sizeVariation * 113
        falloff == Unit - ((dx * dx + dy * dy) * 355000000) \div (rr \div Unit)
        edgeNoise == FloorScaled(state, cfg.LAKE_EDGE_NOISE_AMP)
                        - cfg.LAKE_EDGE_NOISE_AMP \div 2
        depthBelowSea == (lake.depth * Max(0, falloff + edgeNoise)) \div Unit
    IN  Max(0, cfg.SEA_LEVEL - depthBelowSea)

\* HydraulicErosion._calculateFlow: cells from the highest down (the sort is
\* stable), each passing its flow to its lowest lower neighbour, the first
\* such in scan order
calculateFlow(heights, width) ==
    LET n == Len(heights)
        order == SortSeq([i \in 1 .. n |-> i],
                         LAMBDA a, b : heights[a] > heights[b]
                                          \/ (heights[a] = heights[b] /\ a < b))
        X(i) == (i - 1) % width
        Y(i) == (i - 1) \div width
        Neighbors(i) == {j \in 1 .. n : /\ j # i
                                        /\ X(j) - X(i) \in -1 .. 1
                                        /\ Y(j) - Y(i) \in -1 .. 1}
        Lower(i) == {j \in Neighbors(i) : heights[j] < heights[i]}
        lowestNeighbor(i) ==
            CHOOSE j \in Lower(i) :
                \A m \in Lower(i) : heights[j] < heights[m]
                                       \/ (heights[j] = heights[m] /\ j <= m)
        flow[c \in 0 .. n] ==
            IF c = 0 THEN [i \in 1 .. n |-> 1]
            ELSE IF Lower(order[c]) = {} THEN flow[c - 1]
                 ELSE [flow[c - 1] EXCEPT ![lowestNeighbor(order[c])] =
                                              @ + flow[c - 1][order[c]]]
    IN  flow[n]

\* the largest r with r * r <= v
ISqrt(v) == CHOOSE r \in 0 .. v : r * r <= v /\ (r + 1) * (r + 1) > v

\* HydraulicErosion._applyErosion before _normalize: heights[i] -=
\* sqrt(flow / maxFlow) * strength * 0.01, in hundredths of a unit
erodeCells(heights, flow, strength) ==
    [i \in DOMAIN heights |->
        heights[i] * 100 - ISqrt((strength * strength * flow[i]) \div SeqMax(flow))]

\* HydraulicErosion._normalize on the field erodeCells leaves, which is in
\* hundredths of a unit: the field in units, a level field being left as it
\* is (rounded down to whole units)
normalizeEroded(arr) ==
    LET range == SeqMax(arr) - SeqMin(arr)   \* -Infinity on an empty array
    IN  IF Len(arr) > 0 /\ range > 0
        THEN [i \in DOMAIN arr |-> ((arr[i] - SeqMin(arr)) * Unit) \div range]
        ELSE [i \in DOMAIN arr |-> arr[i] \div 100]

\* new TerrainGeneratorV1_1(config)
NewGenerator(cfg) ==
    [config |-> cfg, width |-> cfg.MAP_WIDTH, height |-> cfg.MAP_HEIGHT,
     rng |-> NewRng(cfg.SEED), pc |-> "constructed",
     elevation |-> <<>>, seaLevel |-> 0,
     buildTime |-> [elevation |-> 0, total |-> 0],
     start |-> 0, lake |-> None, cursor |-> 0, cellsCarved |-> 0,
     flow |-> <<>>, iter |-> 0,
     seeds |-> [band \in {"macro", "meso", "micro"} |-> -1]]

\* _generateMoisture and _generateTemperature: one nextInt of each stream
auxiliaryStreams(r0) ==
    streamNext(getStream(streamNext(getStream(r0, "moisture"), "moisture"),
                         "temperature"), "temperature")

(***************************************************************************)
(* Two generators on a small map                                           *)
(***************************************************************************)
GenConfigs ==
    [SEED : {MkWord(0, 12345), MkWord(1, 2)},
     MAP_WIDTH : {2},
     MAP_HEIGHT : {2},
     NOISE_MACRO : [amplitude : {2}, frequency : {1}],
     NOISE_MESO : [amplitude : {1}, frequency : {2}],
     NOISE_MICRO : [amplitude : {0}, frequency : {3}],
     ELEVATION_CURVE : {"SHARP_ALPS"},
     ELEVATION_SCALE : {80},
     SEA_LEVEL : {35},
     WATER_PERCENTAGE : {0, 50},
     WATER_EPSILON : {1},
     LAKE_MIN_SPACING : {15},
     LAKE_DEPTH_MIN : {5},
     LAKE_DEPTH_MAX : {15},
     LAKE_EDGE_NOISE_AMP : {15},
     EROSION_ITERATIONS : {0, 1},
     EROSION_STRENGTH : {15},
     FOREST_PERCENTAGE : {0, 25}]

IdleGen == gen = <<>>

\* a configuration with a map of no width
ZeroWidthConfigs ==
    {[cfg EXCEPT !.MAP_WIDTH = 0] :
        cfg \in {c \in GenConfigs : /\ c.SEED = MkWord(0, 12345)
                                    /\ c.WATER_PERCENTAGE = 50
                                    /\ c.EROSION_ITERATIONS = 1
                                    /\ c.FOREST_PERCENTAGE = 25}}

\* a configuration whose noise bands all have amplitude 0
LevelConfigs ==
    {[cfg EXCEPT !.NOISE_MACRO.amplitude = 0, !.NOISE_MESO.amplitude = 0] :
        cfg \in {c \in GenConfigs : /\ c.SEED = MkWord(0, 12345)
                                    /\ c.WATER_PERCENTAGE = 50
                                    /\ c.EROSION_ITERATIONS = 1
                                    /\ c.FOREST_PERCENTAGE = 25}}

\* a configuration with the three bands on
AllBandsConfig ==
    [(CHOOSE c \in GenConfigs : /\ c.SEED = MkWord(0, 12345)
                                /\ c.WATER_PERCENTAGE = 0
                                /\ c.EROSION_ITERATIONS = 0
                                /\ c.FOREST_PERCENTAGE = 0)
        EXCEPT !.NOISE_MICRO.amplitude = 1]

\* the same with other parameters of the macro band
MacroVariants ==
    {[AllBandsConfig EXCEPT !.NOISE_MACRO.frequency = 2],
     [AllBandsConfig EXCEPT !.NOISE_MACRO.amplitude = 0]}

\* two generators whose configurations differ in SEED and FOREST_PERCENTAGE
\* at most, or in NOISE_MACRO alone
InitGen ==
    \E c1, c2 \in GenConfigs \cup ZeroWidthConfigs \cup LevelConfigs
                     \cup {AllBandsConfig} \cup MacroVariants :
        /\ \/ /\ [c1 EXCEPT !.SEED = c2.SEED, !.FOREST_PERCENTAGE = c2.FOREST_PERCENTAGE] = c2
              /\ c1 \notin {AllBandsConfig} \cup MacroVariants
           \/ c1 = AllBandsConfig /\ c2 \in MacroVariants
        /\ gen = [k \in Instances |-> NewGenerator(IF k = 1 THEN c1 ELSE c2)]

\* this.width * this.height
Cells(k) == gen[k].width * gen[k].height

\* the band _generateElevation is at
BandAt(k) ==
    CASE gen[k].pc = "macro" -> gen[k].config.NOISE_MACRO
      [] gen[k].pc = "meso" -> gen[k].config.NOISE_MESO
      [] gen[k].pc = "micro" -> gen[k].config.NOISE_MICRO

AfterBand(pc) ==
    CASE pc = "macro" -> "meso" [] pc = "meso" -> "micro" [] pc = "micro" -> "normalize"

\* generate() is entered while the other generator is not inside it;
\* _generateElevation reads the clock, takes the 'terrain' stream and
\* allocates the array
EnterGenerate(k) ==
    /\ gen[k].pc = "constructed"
    /\ \A o \in Instances \ {k} : gen[o].pc \in {"constructed", "returned"}
    /\ \E now \in Times :
          gen' = [gen EXCEPT ![k].rng = getStream(@, "terrain"),
                             ![k].elevation = [i \in 1 .. Cells(k) |-> 0],
                             ![k].start = now, ![k].pc = "macro"]
    /\ UNCHANGED notGenVars

\* _generateElevation: one band, if (amplitude > 0)
AddBand(k) ==
    /\ gen[k].pc \in {"macro", "meso", "micro"}
    /\ gen' = IF BandAt(k).amplitude > 0
              THEN [gen EXCEPT
                      ![k].rng = streamNext(@, "terrain"),
                      ![k].seeds[gen[k].pc] =
                          noiseSeed(LcgStep(gen[k].rng.streams["terrain"]), gen[k].start),
                      ![k].elevation =
                          [i \in 1 .. Cells(k) |->
                              @[i] + generateNoiseField(
                                        gen[k].width, gen[k].height,
                                        noiseSeed(LcgStep(gen[k].rng.streams["terrain"]),
                                                  gen[k].start),
                                        BandAt(k))[i] * BandAt(k).amplitude],
                      ![k].pc = AfterBand(@)]
              ELSE [gen EXCEPT ![k].pc = AfterBand(@)]
    /\ UNCHANGED notGenVars

\* _generateElevation: _normalizeArray
Normalize(k) ==
    /\ gen[k].pc = "normalize"
    /\ gen' = [gen EXCEPT ![k].elevation = normalizeArray(@), ![k].pc = "remap"]
    /\ UNCHANGED notGenVars

\* _generateElevation: the contrast and the elevation curve
Remap(k) ==
    /\ gen[k].pc = "remap"
    /\ gen' = [gen EXCEPT
                 ![k].elevation =
                     [i \in 1 .. Cells(k) |->
                         evaluate(getPreset(gen[k].config.ELEVATION_CURVE), contrast(@[i]))],
                 ![k].pc = "lakes"]
    /\ UNCHANGED notGenVars

\* _addLakes up to the carving; on a map without cells the loops of
\* _carveLake have nothing to visit
PlaceLakes(k) ==
    /\ gen[k].pc = "lakes"
    /\ \/ /\ ~lakesWanted(gen[k].config)
          /\ gen' = [gen EXCEPT ![k].pc = "scale"]
       \/ /\ lakesWanted(gen[k].config)
          /\ \E placed \in {lakeOf(gen[k].config, gen[k].width, gen[k].height, gen[k].rng)} :
                gen' = IF Cells(k) > 0
                       THEN [gen EXCEPT ![k].rng = placed.rng, ![k].lake = placed.lake,
                                        ![k].cursor = 1, ![k].pc = "carve"]
                       ELSE [gen EXCEPT ![k].rng = placed.rng, ![k].pc = "scale"]
    /\ UNCHANGED notGenVars

\* _carveLake: if (elevation[idx] > targetHeight), inverted
differs(current, target) == current # target

\* _carveLake: if (elevation[idx] > targetHeight)
lowers(current, target) == current > target

\* _carveLake: one cell of the loop
CarveCell(k) ==
    /\ gen[k].pc = "carve"
    /\ LET n == gen[k].cursor
           s == LcgStep(gen[k].rng.streams["lakes"])
           target == targetHeight(gen[k].config, gen[k].width, gen[k].lake, n, s)
           last == n = Cells(k)
           carve == insideLake(gen[k].width, gen[k].lake, n)
                       /\ lowers(gen[k].elevation[n], target)
       IN  gen' = [gen EXCEPT
                     ![k].rng = IF insideLake(gen[k].width, gen[k].lake, n)
                                THEN [@ EXCEPT !.streams["lakes"] = s] ELSE @,
                     ![k].elevation = IF carve THEN [@ EXCEPT ![n] = target] ELSE @,
                     ![k].cellsCarved = IF carve THEN @ + 1 ELSE @,
                     ![k].cursor = IF last THEN 0 ELSE n + 1,
                     ![k].lake = IF last THEN None ELSE @,
                     ![k].pc = IF last THEN "scale" ELSE @]
    /\ UNCHANGED notGenVars

\* _generateElevation: the heights in metres, and the time the phase took
Scale(k) ==
    /\ gen[k].pc = "scale"
    /\ \E elapsed \in Times :
          gen' = [gen EXCEPT
                    ![k].elevation = [i \in 1 .. Cells(k) |->
                                         @[i] * gen[k].config.ELEVATION_SCALE],
                    ![k].buildTime.elevation = elapsed,
                    ![k].start = 0, ![k].pc = "erosion"]
    /\ UNCHANGED notGenVars

\* generate(): if (EROSION_ITERATIONS > 0) _applyErosion, which takes the
\* 'erosion' stream and calls erode
BeginErosion(k) ==
    /\ gen[k].pc = "erosion"
    /\ gen' = IF gen[k].config.EROSION_ITERATIONS > 0
              THEN [gen EXCEPT ![k].rng = getStream(@, "erosion"),
                               ![k].iter = 0, ![k].pc = "flow"]
              ELSE [gen EXCEPT ![k].pc = "seaLevel"]
    /\ UNCHANGED notGenVars

\* erode: _calculateFlow
CalculateFlow(k) ==
    /\ gen[k].pc = "flow"
    /\ gen' = [gen EXCEPT ![k].flow = calculateFlow(gen[k].elevation, gen[k].width),
                          ![k].pc = "erode"]
    /\ UNCHANGED notGenVars

\* erode: _applyErosion, the loop over the cells
ErodeCells(k) ==
    /\ gen[k].pc = "erode"
    /\ gen' = [gen EXCEPT
                 ![k].elevation = erodeCells(@, gen[k].flow,
                                             gen[k].config.EROSION_STRENGTH),
                 ![k].pc = "erodeNormalize"]
    /\ UNCHANGED notGenVars

\* erode: _normalize, and the next iteration if there is one
NormalizeEroded(k) ==
    /\ gen[k].pc = "erodeNormalize"
    /\ LET last == gen[k].iter + 1 >= gen[k].config.EROSION_ITERATIONS
       IN  gen' = [gen EXCEPT ![k].elevation = normalizeEroded(@),
                              ![k].flow = IF last THEN <<>> ELSE @,
                              ![k].iter = IF last THEN 0 ELSE @ + 1,
                              ![k].pc = IF last THEN "seaLevel" ELSE "flow"]
    /\ UNCHANGED notGenVars

\* generate(), phase 3: _solveSeaLevel
SolveGenSeaLevel(k) ==
    /\ gen[k].pc = "seaLevel"
    /\ gen' = [gen EXCEPT
                 ![k].seaLevel = solveSeaLevel(gen[k].elevation,
                                               gen[k].config.WATER_PERCENTAGE,
                                               gen[k].config.WATER_EPSILON).seaLevel,
                 ![k].elevation = solveSeaLevel(@, gen[k].config.WATER_PERCENTAGE,
                                                gen[k].config.WATER_EPSILON).field,
                 ![k].pc = "climate"]
    /\ UNCHANGED notGenVars

\* generate(), phases 4 to 6, the total time and the return
ReturnTerrain(k) ==
    /\ gen[k].pc = "climate"
    /\ \E total \in Times :
          gen' = [gen EXCEPT ![k].rng = auxiliaryStreams(@),
                             ![k].buildTime.total = total, ![k].pc = "returned"]
    /\ UNCHANGED notGenVars

NextGen ==
    \/ \E k \in Instances : EnterGenerate(k)
    \/ \E k \in Instances : AddBand(k)
    \/ \E k \in Instances : Normalize(k)
    \/ \E k \in Instances : Remap(k)
    \/ \E k \in Instances : PlaceLakes(k)
    \/ \E k \in Instances : CarveCell(k)
    \/ \E k \in Instances : Scale(k)
    \/ \E k \in Instances : BeginErosion(k)
    \/ \E k \in Instances : CalculateFlow(k)
    \/ \E k \in Instances : ErodeCells(k)
    \/ \E k \in Instances : NormalizeEroded(k)
    \/ \E k \in Instances : SolveGenSeaLevel(k)
    \/ \E k \in Instances : ReturnTerrain(k)

(***************************************************************************)
(* terrainGeneratorV1_1.js: validateTreePositions                          *)
(*                                                                         *)
(* Sampled heights are exact, times HeightScale, as in getHeightAt.        *)
(***************************************************************************)
\* h <= seaLevel
atOrBelowSea(h, seaLevel) == h <= seaLevel * HeightScale

\* the beach test with the band open at its top
inBeachBandBelowTop(h, seaLevel) == h < (seaLevel + 4) * HeightScale

\* h <= beachHeight, beachHeight = seaLevel + 4
inBeachBand(h, seaLevel) == h <= (seaLevel + 4) * HeightScale

\* validateTreePositions: the loop over the positions, with its counters
validateTreePositions(positions, td) ==
    LET loop[n \in 0 .. Len(positions)] ==
            IF n = 0
            THEN [validPositions |-> <<>>, removedWater |-> 0, removedBeach |-> 0]
            ELSE LET h == getHeightAt(<<positions[n].x, positions[n].z>>, td)
                 IN  IF atOrBelowSea(h, td.seaLevel)
                     THEN [loop[n - 1] EXCEPT !.removedWater = @ + 1]
                     ELSE IF inBeachBand(h, td.seaLevel)
                          THEN [loop[n - 1] EXCEPT !.removedBeach = @ + 1]
                          ELSE [loop[n - 1] EXCEPT
                                  !.validPositions =
                                      Append(@, [positions[n] EXCEPT !.height = h])]
    IN  loop[Len(positions)]

(***************************************************************************)
(* One call of validateTreePositions on a 3x1 terrain of 2 m cells         *)
(***************************************************************************)
MaxPositions == 3

ValidationTerrains ==
    {[elevation |-> e, seaLevel |-> 0, width |-> 3, height |-> 1, cellSize |-> 2] :
        e \in [1 .. 3 -> {0, 4, 8}]}

\* placements as generateTreePositions returns them; the height they carry
\* is not read
ValidationPoints == {[x |-> x, z |-> x % 2, height |-> 0] : x \in 0 .. 5}

IdleValidation == validation = [pc |-> "idle"]

InitValidation ==
    \E td \in ValidationTerrains, n \in 0 .. MaxPositions :
        \E positions \in [1 .. n -> ValidationPoints] :
            validation = [pc |-> "called", terrain |-> td, positions |-> positions]

\* the call, from entry to return
ValidateTreePositions ==
    /\ validation.pc = "called"
    /\ LET r == validateTreePositions(validation.positions, validation.terrain)
       IN  validation' = [pc |-> "done", terrain |-> validation.terrain,
                          positions |-> validation.positions,
                          result |-> r.validPositions,
                          removedWater |-> r.removedWater,
                          removedBeach |-> r.removedBeach]
    /\ UNCHANGED notValidationVars

NextValidation == ValidateTreePositions

(***************************************************************************)
(* renderer: _spawnLowPolyTreesV1_1                                        *)
(*                                                                         *)
(* Two renderers are handed the same terrain and configuration, as after   *)
(* two generations of the same map, and each places its trees.  A value of *)
(* Math.random() is an input; a value of the seeded tree stream is a       *)
(* function of the stream's state.  The candidate of the sampler is a      *)
(* function of the two values drawn for its angle and radius, the random   *)
(* score of a candidate the top 16 bits of the value drawn for it.         *)
(***************************************************************************)
\* { next: () => Math.random(), ... }
MathRandom == [kind |-> "Math.random"]

\* the treeRng _spawnLowPolyTreesV1_1 hands to generateTreePositions
treeRngOf(td) ==
    IF td.rngStates THEN MathRandom
    ELSE IF td.rng # <<>>
         THEN [kind |-> "stream", state |-> getStream(td.rng[1], "trees").streams["trees"]]
         ELSE MathRandom

\* treeRng after n calls of next()
afterDraws(r, n) ==
    IF r.kind = "stream" THEN [r EXCEPT !.state = LcgIter(@, n)] ELSE r

\* the element of the non-empty set S of points at place n (from 0), by x then y
Nth(S, n) ==
    CHOOSE p \in S :
        Cardinality({o \in S : o[1] < p[1] \/ (o[1] = p[1] /\ o[2] < p[2])}) = n

\* (rng() * width, rng() * height)
drawPoint(r, w, h) ==
    IF r.kind = "stream"
    THEN {<<FloorScaled(LcgIter(r.state, 1), w), FloorScaled(LcgIter(r.state, 2), h)>>}
    ELSE Lattice(w, h)

\* Math.floor(rng() * active.length), counted from 1
drawIndex(r, n) ==
    IF r.kind = "stream" THEN {FloorScaled(LcgIter(r.state, 1), n) + 1} ELSE 1 .. n

\* the candidate at angle rng() * 2 * PI and radius minDistance * (1 + rng())
drawCandidate(r, q, pt) ==
    LET C == Candidates(q, pt)
        n == Cardinality(C)
    IN  IF r.kind = "stream"
        THEN {Nth(C, (FloorScaled(LcgIter(r.state, 1), n)
                        + FloorScaled(LcgIter(r.state, 2), n)) % n)}
        ELSE C

\* totalScore of candidate i, times 1000 * Half, the stream being at state
\* `state` before the first score is drawn
totalScore(candidates, i, td, state) ==
    LET h == getHeightAt(candidates[i], td)
        off == IF h >= 25 * HeightScale THEN h - 25 * HeightScale
               ELSE 25 * HeightScale - h
    IN  7 * (25 * HeightScale - off) * (Half \div 100) * HeightScale
            + 3 * LcgIter(state, i)[1] * 100

\* selectBestTreePositions drawing its scores from treeRng
selectWith(r, candidates, targetCount, td) ==
    IF r.kind # "stream" \/ Len(candidates) <= targetCount
    THEN selectBestTreePositions(candidates, targetCount, td)
    ELSE LET score(i) == totalScore(candidates, i, td, r.state)
             \* the sort is stable: equal scores keep the order of candidates
             place(i) == Cardinality({j \in 1 .. Len(candidates) :
                             score(j) > score(i) \/ (score(j) = score(i) /\ j < i)})
             at(k) == CHOOSE i \in 1 .. Len(candidates) : place(i) = k - 1
         IN  {[k \in 1 .. targetCount |-> Placement(candidates[at(k)], td)]}

\* the terrains handed to the renderer: what generate() returns (it carries
\* rngStates and no rng), a terrain carrying a MultiStreamRNG as rng, and one
\* carrying neither; rng is <<>> where the terrain has no such field
SpawnTerrains ==
    {[elevation |-> <<3, 3, 3, 3>>, seaLevel |-> 0, width |-> 4, height |-> 1,
      cellSize |-> 2, rngStates |-> s[1], rng |-> s[2]] :
        s \in {<<TRUE, <<>>>>, <<FALSE, <<>>>>}
                 \cup {<<FALSE, <<NewRng(seed)>>>> : seed \in {MkWord(0, 12345), MkWord(1, 2)}}}

SpawnConfigs ==
    [FOREST_PERCENTAGE : {0, 100},
     TREE_MIN_SPACING : {6},
     TREE_MAX_HEIGHT : {0},
     TREE_MAX_SLOPE : {0},
     TREE_BEACH_BUFFER : {0}]

IdleSpawn == spawn = <<>>

InitSpawn ==
    \E td \in SpawnTerrains, cfg \in SpawnConfigs :
        spawn = [terrainData |-> td, config |-> cfg,
                 run |-> [k \in Instances |-> [pc |-> "idle"]]]

\* the renderers place their trees one after the other
SpawnTurn(k) ==
    /\ spawn # <<>>
    /\ \A j \in Instances : j < k => spawn.run[j].pc = "done"

\* _spawnLowPolyTreesV1_1 up to the call of poissonDiskSampling inside
\* generateTreePositions, or to the return of generateTreePositions before it
SpawnTrees(k) ==
    /\ SpawnTurn(k)
    /\ spawn.run[k].pc = "idle"
    /\ LET td == spawn.terrainData
           b == beforeSampling(td, spawn.config)
           minSpacing == OrDefault(spawn.config.TREE_MIN_SPACING, 3)
       IN  spawn' = [spawn EXCEPT !.run[k] =
              IF b.returned
              THEN [pc |-> "done", result |-> <<>>]
              ELSE [pc |-> "sampling", treeRng |-> treeRngOf(td),
                    targetTreeCount |-> b.targetTreeCount,
                    q |-> NewSampling(td.width * td.cellSize, td.height * td.cellSize,
                                      minSpacing * minSpacing, TreeAttempts, TRUE,
                                      suitabilityFn(td, b.mask))]]
    /\ UNCHANGED notSpawnVars

SpawnInitialPoint(k) ==
    /\ SpawnTurn(k)
    /\ spawn.run[k].pc = "sampling"
    /\ spawn.run[k].q.pc = "initial"
    /\ \E pt \in drawPoint(spawn.run[k].treeRng, spawn.run[k].q.width, spawn.run[k].q.height) :
          spawn' = [spawn EXCEPT !.run[k].q = initialRound(@, pt),
                                 !.run[k].treeRng = afterDraws(@, 2)]
    /\ UNCHANGED notSpawnVars

SpawnPickActive(k) ==
    /\ SpawnTurn(k)
    /\ spawn.run[k].pc = "sampling"
    /\ spawn.run[k].q.pc = "pick"
    /\ \E index \in drawIndex(spawn.run[k].treeRng, Len(spawn.run[k].q.active)) :
          spawn' = [spawn EXCEPT !.run[k].q = pickActive(@, index),
                                 !.run[k].treeRng = afterDraws(@, 1)]
    /\ UNCHANGED notSpawnVars

SpawnAttempt(k) ==
    /\ SpawnTurn(k)
    /\ spawn.run[k].pc = "sampling"
    /\ spawn.run[k].q.pc = "attempt"
    /\ spawn.run[k].q.i < spawn.run[k].q.maxAttempts
    /\ \E pt \in drawCandidate(spawn.run[k].treeRng, spawn.run[k].q,
                               spawn.run[k].q.active[spawn.run[k].q.index]) :
          spawn' = [spawn EXCEPT !.run[k].q = attempt(@, pt),
                                 !.run[k].treeRng = afterDraws(@, 2)]
    /\ UNCHANGED notSpawnVars

SpawnEndAttempts(k) ==
    /\ SpawnTurn(k)
    /\ spawn.run[k].pc = "sampling"
    /\ spawn.run[k].q.pc = "attempt"
    /\ spawn.run[k].q.i >= spawn.run[k].q.maxAttempts
    /\ spawn' = [spawn EXCEPT !.run[k].q = endAttempts(@)]
    /\ UNCHANGED notSpawnVars

\* generateTreePositions from the return of poissonDiskSampling to its own:
\* treePositions of _spawnLowPolyTreesV1_1
SpawnSelect(k) ==
    /\ SpawnTurn(k)
    /\ spawn.run[k].pc = "sampling"
    /\ spawn.run[k].q.pc = "done"
    /\ \E r \in selectWith(spawn.run[k].treeRng, spawn.run[k].q.samples,
                           spawn.run[k].targetTreeCount, spawn.terrainData) :
          spawn' = [spawn EXCEPT !.run[k] = [pc |-> "done", result |-> r]]
    /\ UNCHANGED notSpawnVars

NextSpawn ==
    \/ \E k \in Instances : SpawnTrees(k)
    \/ \E k \in Instances : SpawnInitialPoint(k)
    \/ \E k \in Instances : SpawnPickActive(k)
    \/ \E k \in Instances : SpawnAttempt(k)
    \/ \E k \in Instances : SpawnEndAttempts(k)
    \/ \E k \in Instances : SpawnSelect(k)

(***************************************************************************)
(* poisson.js: stratifiedPoissonSampling                                   *)
(*                                                                         *)
(* The domain's sides are multiples of strataCount, so a stratum is a      *)
(* whole-number lattice like the domain.  Every value of rng() is an       *)
(* input, as in poissonDiskSampling.                                       *)
(***************************************************************************)
\* the call passes maxAttempts = 30 to each stratum; the model passes
\* StrataAttempts
StrataAttempts == 1

\* localMask: (x, y) => suitabilityMask(x + offsetX, y + offsetY)
localMask(allowed, w, h, offset) ==
    {pt \in Lattice(w, h) : <<pt[1] + offset[1], pt[2] + offset[2]>> \in allowed}

\* (offsetX, offsetY) of stratum (sx, sy)
StratumOffset(s) ==
    <<s.sx * (s.width \div s.strataCount), s.sy * (s.height \div s.strataCount)>>

\* the locals of poissonDiskSampling as the call for stratum (sx, sy) starts
StratumSampling(s) ==
    NewSampling(s.width \div s.strataCount, s.height \div s.strataCount, s.rSq,
                StrataAttempts, s.hasMask,
                localMask(s.allowed, s.width \div s.strataCount,
                          s.height \div s.strataCount, StratumOffset(s)))

\* the samples of the stratum, offset to global coordinates
offsetSamples(samples, offset) ==
    [k \in 1 .. Len(samples) |-> <<samples[k][1] + offset[1], samples[k][2] + offset[2]>>]

StrataDomains == {<<4, 2>>, <<6, 2>>}

StrataCounts == {1, 2}

StrataMaskKinds == {"none", "right"}

IdleStrat == strat = [pc |-> "idle"]

InitStrat ==
    \E d \in StrataDomains, rSq \in MinDistSqs, n \in StrataCounts, k \in StrataMaskKinds :
        strat = [pc |-> "stratum", width |-> d[1], height |-> d[2], rSq |-> rSq,
                 strataCount |-> n, hasMask |-> k # "none",
                 allowed |-> MaskOf(k, d[1], d[2]),
                 sx |-> 0, sy |-> 0, q |-> [pc |-> "idle"], allSamples |-> <<>>]

\* the head of the inner loop: the sampler is called on the next stratum, or
\* the loops are over and allSamples is returned
NextStratum ==
    /\ strat.pc = "stratum"
    /\ strat' = IF strat.sy < strat.strataCount
                THEN [strat EXCEPT !.pc = "sampling", !.q = StratumSampling(strat)]
                ELSE [strat EXCEPT !.pc = "done"]
    /\ UNCHANGED notStratVars

StratInitialPoint ==
    /\ strat.pc = "sampling"
    /\ strat.q.pc = "initial"
    /\ \E pt \in Lattice(strat.q.width, strat.q.height) :
          strat' = [strat EXCEPT !.q = initialRound(@, pt)]
    /\ UNCHANGED notStratVars

StratPickActive ==
    /\ strat.pc = "sampling"
    /\ strat.q.pc = "pick"
    /\ \E index \in 1 .. Len(strat.q.active) :
          strat' = [strat EXCEPT !.q = pickActive(@, index)]
    /\ UNCHANGED notStratVars

StratAttempt ==
    /\ strat.pc = "sampling"
    /\ strat.q.pc = "attempt"
    /\ strat.q.i < strat.q.maxAttempts
    /\ \E pt \in Candidates(strat.q, strat.q.active[strat.q.index]) :
          strat' = [strat EXCEPT !.q = attempt(@, pt)]
    /\ UNCHANGED notStratVars

StratEndAttempts ==
    /\ strat.pc = "sampling"
    /\ strat.q.pc = "attempt"
    /\ strat.q.i >= strat.q.maxAttempts
    /\ strat' = [strat EXCEPT !.q = endAttempts(@)]
    /\ UNCHANGED notStratVars

\* the samples of the stratum are offset and pushed; sx, then sy, advance
CollectStratum ==
    /\ strat.pc = "sampling"
    /\ strat.q.pc = "done"
    /\ strat' = [strat EXCEPT
          !.allSamples = @ \o offsetSamples(strat.q.samples, StratumOffset(strat)),
          !.q = [pc |-> "idle"],
          !.sx = IF @ + 1 < strat.strataCount THEN @ + 1 ELSE 0,
          !.sy = IF strat.sx + 1 < strat.strataCount THEN @ ELSE @ + 1,
          !.pc = "stratum"]
    /\ UNCHANGED notStratVars

NextStrat ==
    \/ NextStratum
    \/ StratInitialPoint
    \/ StratPickActive
    \/ StratAttempt
    \/ StratEndAttempts
    \/ CollectStratum

(***************************************************************************)
(* terrainGeneratorV1_1.js: _solveSeaLevel, _calculateMetrics              *)
(*                                                                         *)
(* The water metrics of one generate(), from the elevation field phase 3   *)
(* is given.  Heights and sea levels are as in the solver: a height is a   *)
(* whole number of units of 0.01 m, a sea level a whole number of          *)
(* hundredths of a unit.                                                   *)
(***************************************************************************)
\* 0.001 m, the equality band of validateWaterCoverage, in hundredths of a unit
SeaEqualityBand == 10

\* |cells / total * 100 - p| <= WATER_TOLERANCE (0.1), cleared of fractions
withinWaterTolerance(cells, total, p) ==
    /\ cells * 1000 - p * 10 * total <= total
    /\ p * 10 * total - cells * 1000 <= total

\* validateWaterCoverage(elevationData, seaLevel, targetPercentage, tolerance)
validateWaterCoverage(data, seaLevel, p) ==
    LET below == {i \in DOMAIN data : data[i] * SeaScale < seaLevel}
        atSea == {i \in DOMAIN data \ below :
                     /\ data[i] * SeaScale - seaLevel < SeaEqualityBand
                     /\ seaLevel - data[i] * SeaScale < SeaEqualityBand}
    IN  [cellsBelowSeaLevel |-> Cardinality(below),
         cellsAtSeaLevel |-> Cardinality(atSea),
         passed |-> withinWaterTolerance(Cardinality(below) + Cardinality(atSea),
                                         Len(data), p)]

\* invariants.waterCoverageMatch, actualPercentage being
\* cellsBelowSeaLevel / totalCells * 100 in each branch of solveSeaLevel
waterCoverageMatch(result, p) ==
    withinWaterTolerance(result.cellsBelowSeaLevel, Len(result.field), p)

CoverageTargets == {0, 5, 50, 100}

IdleCoverage == coverage = [pc |-> "idle"]

InitCoverage ==
    \E e \in SmallFields \cup PlateauFields, p \in CoverageTargets, eps \in Epsilons :
        coverage = [pc |-> "phase3", elevation |-> e,
                    WATER_PERCENTAGE |-> p, WATER_EPSILON |-> eps]

\* _solveSeaLevel: the solver, the validation, metrics.waterCoverage
SolveAndValidate ==
    /\ coverage.pc = "phase3"
    /\ LET result == solveSeaLevel(coverage.elevation, coverage.WATER_PERCENTAGE,
                                   coverage.WATER_EPSILON)
           v == validateWaterCoverage(result.field, result.seaLevel,
                                      coverage.WATER_PERCENTAGE)
       IN  coverage' = [pc |-> "metrics",
                        elevation |-> result.field,
                        WATER_PERCENTAGE |-> coverage.WATER_PERCENTAGE,
                        WATER_EPSILON |-> coverage.WATER_EPSILON,
                        seaLevelData |-> result,
                        validated |-> v.passed]
    /\ UNCHANGED notCoverageVars

\* _calculateMetrics: invariants.waterCoverageMatch; generate() returns
CalculateMetrics ==
    /\ coverage.pc = "metrics"
    /\ coverage' = [pc |-> "returned",
                    elevation |-> coverage.elevation,
                    WATER_PERCENTAGE |-> coverage.WATER_PERCENTAGE,
                    WATER_EPSILON |-> coverage.WATER_EPSILON,
                    seaLevelData |-> coverage.seaLevelData,
                    validated |-> coverage.validated,
                    waterCoverageMatch |->
                        waterCoverageMatch(coverage.seaLevelData, coverage.WATER_PERCENTAGE)]
    /\ UNCHANGED notCoverageVars

NextCoverage ==
    \/ SolveAndValidate
    \/ CalculateMetrics

(***************************************************************************)
(* erosion.js: HydraulicErosion.erode                                      *)
(*                                                                         *)
(* A height is a whole number of hundredths of a unit, 1.0 being           *)
(* Unit * 100 of them; strength is in the same hundredths (0.15 is 15), so *)
(* the erosion of a cell, sqrt(flow / maxFlow) * strength * 0.01, is the   *)
(* whole-number square root below.                                         *)
(***************************************************************************)
\* _normalize on a field in hundredths of a unit
normalizeHeights(arr) ==
    LET range == SeqMax(arr) - SeqMin(arr)
    IN  IF range > 0
        THEN [i \in DOMAIN arr |-> ((arr[i] - SeqMin(arr)) * Unit * 100) \div range]
        ELSE arr

\* _applyErosion: every cell is lowered, then the field is normalised
applyErosion(heights, flow, strength) ==
    normalizeHeights(
        [i \in DOMAIN heights |->
            heights[i] - ISqrt((strength * strength * flow[i]) \div SeqMax(flow))])

MaxIterations == 2

ErosionGrids == {<<2, 2>>, <<3, 1>>}

ErosionHeights == {0, 50 * Unit, 100 * Unit}      \* 0, 0.5, 1.0

ErosionStrengths == {15, 30}                      \* 0.15 (config.js), 0.3 (default)

IdleErosion == erosion = [pc |-> "idle"]

InitErosion ==
    \E g \in ErosionGrids, n \in 1 .. MaxIterations, s \in ErosionStrengths :
        \E h \in [1 .. g[1] * g[2] -> ErosionHeights] :
            erosion = [pc |-> "flow", width |-> g[1], height |-> g[2],
                       iterations |-> n, strength |-> s, iter |-> 0,
                       heightField |-> h, flow |-> [i \in 1 .. g[1] * g[2] |-> 0]]

\* erode: this._calculateFlow(heightField, flow)
ErosionFlow ==
    /\ erosion.pc = "flow"
    /\ erosion' = [erosion EXCEPT
                     !.flow = calculateFlow(erosion.heightField, erosion.width),
                     !.pc = "apply"]
    /\ UNCHANGED notErosionVars

\* erode: this._applyErosion(heightField, flow, strength), and iter++
ErosionApply ==
    /\ erosion.pc = "apply"
    /\ erosion' = [erosion EXCEPT
                     !.heightField = applyErosion(@, erosion.flow, erosion.strength),
                     !.iter = @ + 1,
                     !.pc = IF erosion.iter + 1 < erosion.iterations
                            THEN "flow" ELSE "done"]
    /\ UNCHANGED notErosionVars

NextErosion ==
    \/ ErosionFlow
    \/ ErosionApply

(***************************************************************************)
(* terrainGeneratorV1_1.js: _addLakes, the lake centres                    *)
(*                                                                         *)
(* The centres come from poissonDiskSampling on the map with               *)
(* LAKE_MIN_SPACING (kept by its square, rSq) and no predicate; every      *)
(* value of the 'lakes' stream is an input.  Each centre is handed to      *)
(* _carveLake in turn; the cells it lowers are modelled with generate(),   *)
(* here a carved lake is its centre and its share of the water cells.      *)
(***************************************************************************)
\* the call passes maxAttempts = 30; the model passes LakeAttempts
LakeAttempts == 1

\* Math.floor((WATER_PERCENTAGE / 100) * totalCells)
targetWaterCells(l) == (l.WATER_PERCENTAGE * l.width * l.height) \div 100

\* Math.ceil(targetWaterCells / avgLakeArea), avgLakeArea being
\* pi * (LAKE_MIN_SPACING / 2)^2 and pi 355/113
estimatedLakeCount(l) ==
    CHOOSE n \in 0 .. 4 * targetWaterCells(l) :
        /\ n * 355 * l.rSq >= 4 * 113 * targetWaterCells(l)
        /\ n = 0 \/ (n - 1) * 355 * l.rSq < 4 * 113 * targetWaterCells(l)

LakeMaps == {<<4, 2>>, <<3, 3>>}

LakeWaterPercentages == {0, 25, 50}

LakeSpacingSqs == {4, 5}

IdleLakes == lakes = [pc |-> "idle"]

InitLakes ==
    \E d \in LakeMaps, p \in LakeWaterPercentages, rSq \in LakeSpacingSqs :
        lakes = [pc |-> "start", width |-> d[1], height |-> d[2],
                 WATER_PERCENTAGE |-> p, rSq |-> rSq, estimatedLakeCount |-> 0,
                 q |-> [pc |-> "idle"], lakeCenters |-> <<>>, carved |-> <<>>]

\* _addLakes up to the call of the sampler, or its early return
AddLakes ==
    /\ lakes.pc = "start"
    /\ lakes' = IF lakes.WATER_PERCENTAGE <= 0
                THEN [lakes EXCEPT !.pc = "done"]
                ELSE [lakes EXCEPT
                        !.estimatedLakeCount = estimatedLakeCount(lakes),
                        !.q = NewSampling(lakes.width, lakes.height, lakes.rSq,
                                          LakeAttempts, FALSE, {}),
                        !.pc = "sampling"]
    /\ UNCHANGED notLakesVars

LakeInitialPoint ==
    /\ lakes.pc = "sampling"
    /\ lakes.q.pc = "initial"
    /\ \E pt \in Lattice(lakes.q.width, lakes.q.height) :
          lakes' = [lakes EXCEPT !.q = initialRound(@, pt)]
    /\ UNCHANGED notLakesVars

LakePickActive ==
    /\ lakes.pc = "sampling"
    /\ lakes.q.pc = "pick"
    /\ \E index \in 1 .. Len(lakes.q.active) :
          lakes' = [lakes EXCEPT !.q = pickActive(@, index)]
    /\ UNCHANGED notLakesVars

LakeAttempt ==
    /\ lakes.pc = "sampling"
    /\ lakes.q.pc = "attempt"
    /\ lakes.q.i < lakes.q.maxAttempts
    /\ \E pt \in Candidates(lakes.q, lakes.q.active[lakes.q.index]) :
          lakes' = [lakes EXCEPT !.q = attempt(@, pt)]
    /\ UNCHANGED notLakesVars

LakeEndAttempts ==
    /\ lakes.pc = "sampling"
    /\ lakes.q.pc = "attempt"
    /\ lakes.q.i >= lakes.q.maxAttempts
    /\ lakes' = [lakes EXCEPT !.q = endAttempts(@)]
    /\ UNCHANGED notLakesVars

\* the sampler returns: lakeCenters, and the return if there is none
LakeCenters ==
    /\ lakes.pc = "sampling"
    /\ lakes.q.pc = "done"
    /\ lakes' = [lakes EXCEPT !.lakeCenters = lakes.q.samples,
                              !.q = [pc |-> "idle"],
                              !.pc = IF Len(lakes.q.samples) = 0 THEN "done" ELSE "carving"]
    /\ UNCHANGED notLakesVars

\* one pass of the loop over lakeCenters: _carveLake on the next centre
CarveLake ==
    /\ lakes.pc = "carving"
    /\ lakes' = IF Len(lakes.carved) < Len(lakes.lakeCenters)
                THEN [lakes EXCEPT !.carved = Append(@,
                        [center |-> lakes.lakeCenters[Len(lakes.carved) + 1],
                         cellsPerLake |-> targetWaterCells(lakes)
                                             \div Len(lakes.lakeCenters)])]
                ELSE [lakes EXCEPT !.pc = "done"]
    /\ UNCHANGED notLakesVars

NextLakes ==
    \/ AddLakes
    \/ LakeInitialPoint
    \/ LakePickActive
    \/ LakeAttempt
    \/ LakeEndAttempts
    \/ LakeCenters
    \/ CarveLake

(***************************************************************************)
(* erosion.js: HydraulicErosion._calculateFlow, cell by cell               *)
(*                                                                         *)
(* cells.sort orders the cells by height alone; which of two cells of one  *)
(* height comes first is left open here, so each pass of the loop takes    *)
(* any of the highest cells not yet processed.                             *)
(***************************************************************************)
\* the in-range cells around cell i in the scan of dy and dx
flowNeighbors(n, width, i) ==
    {j \in 1 .. n : /\ j # i
                    /\ ((j - 1) % width) - ((i - 1) % width) \in -1 .. 1
                    /\ ((j - 1) \div width) - ((i - 1) \div width) \in -1 .. 1}

\* the comparison of the scan turned into <=
notAbove(h, lowestHeight) == h <= lowestHeight

\* if (heights[nIdx] < lowestHeight)
below(h, lowestHeight) == h < lowestHeight

\* lowestNeighbor after the scan around cell i: each neighbour in index order
\* replaces the candidate when it is below it; 0 stands for null
lowestNeighbor(heights, width, i) ==
    LET n == Len(heights)
        scan[j \in 0 .. n] ==
            IF j = 0 THEN [lowestNeighbor |-> 0, lowestHeight |-> heights[i]]
            ELSE IF j \in flowNeighbors(n, width, i)
                       /\ below(heights[j], scan[j - 1].lowestHeight)
                 THEN [lowestNeighbor |-> j, lowestHeight |-> heights[j]]
                 ELSE scan[j - 1]
    IN  scan[n].lowestNeighbor

\* the cells of cells[] the loop has not reached
unprocessed(d) == (1 .. Len(d.heights)) \ {d.order[k] : k \in DOMAIN d.order}

FlowGrids == {<<2, 2>>, <<3, 1>>, <<3, 2>>}

FlowHeights == {0, 1, 2}

\* the fields tried: all of them on the grids of up to 4 cells, those with a
\* level top row on the others
FlowFields(g) ==
    {h \in [1 .. g[1] * g[2] -> FlowHeights] :
        g[1] * g[2] > 4 => \A i \in 1 .. g[1] : h[i] = 2}

IdleFlow == d8 = [pc |-> "idle"]

InitFlow ==
    \E g \in FlowGrids : \E h \in FlowFields(g) :
        d8 = [pc |-> "fill", width |-> g[1], height |-> g[2], heights |-> h,
              flow |-> [i \in 1 .. g[1] * g[2] |-> 0], order |-> <<>>]

\* flow.fill(1.0); the cells are listed and sorted
FlowFill ==
    /\ d8.pc = "fill"
    /\ d8' = [d8 EXCEPT !.flow = [i \in DOMAIN d8.flow |-> 1], !.pc = "cells"]
    /\ UNCHANGED notFlowVars

\* one pass of the loop over cells: the cell's flow goes to its lowest neighbour
FlowCell ==
    /\ d8.pc = "cells"
    /\ \E c \in unprocessed(d8) :
          /\ \A m \in unprocessed(d8) : d8.heights[m] <= d8.heights[c]
          /\ LET to == lowestNeighbor(d8.heights, d8.width, c)
             IN  d8' = [d8 EXCEPT
                          !.flow = IF to # 0 THEN [@ EXCEPT ![to] = @ + d8.flow[c]] ELSE @,
                          !.order = Append(@, c),
                          !.pc = IF unprocessed(d8) = {c} THEN "done" ELSE @]
    /\ UNCHANGED notFlowVars

NextFlow ==
    \/ FlowFill
    \/ FlowCell

(***************************************************************************)
(* erosion.js: applyThermalErosion                                         *)
(*                                                                         *)
(* A height is a whole number of hundredths (1.0 is 100), the threshold    *)
(* likewise (0.05 is 5); the quarter of the mean difference is rounded     *)
(* down.  The loops over y and x visit the interior cells in row order;    *)
(* here a sweep takes them in any order.                                   *)
(***************************************************************************)
\* the cells with 1 <= x < width - 1 and 1 <= y < height - 1
interiorCells(width, height) ==
    {i \in 1 .. width * height : /\ (i - 1) % width \in 1 .. width - 2
                                 /\ (i - 1) \div width \in 1 .. height - 2}

\* the neighbours array of cell idx: left, right, up, down
thermalNeighbors(field, width, idx) ==
    <<field[idx - 1], field[idx + 1], field[idx - width], field[idx + width]>>

\* erosion * 0.5 for cell idx, (totalDiff / count) * 0.5 * 0.5, or 0 when no
\* neighbour is lower by more than the threshold
thermalLoss(field, width, idx, threshold) ==
    LET nh == thermalNeighbors(field, width, idx)
        over == {k \in 1 .. 4 : field[idx] - nh[k] > threshold}
        total[k \in 0 .. 4] ==
            IF k = 0 THEN 0
            ELSE total[k - 1] + IF k \in over THEN field[idx] - nh[k] ELSE 0
    IN  IF over = {} THEN 0 ELSE total[4] \div (4 * Cardinality(over))

\* a sweep that reads the buffer it writes
sweepReadsTemp(heightField, temp) == temp

\* the array a sweep reads: heightField, which it does not write
sweepReads(heightField, temp) == heightField

ThermalGrids == {<<3, 3>>, <<4, 3>>, <<4, 4>>}

ThermalHeights == {0, 48, 96}

ThermalBorders == {0, 48}

ThermalThreshold == 5

MaxSweeps == 2

\* the fields tried: a level border around any interior
ThermalFields(g) ==
    {[i \in 1 .. g[1] * g[2] |-> IF i \in interiorCells(g[1], g[2]) THEN inner[i] ELSE b] :
        inner \in [interiorCells(g[1], g[2]) -> ThermalHeights], b \in ThermalBorders}

IdleThermal == thermal = [pc |-> "idle"]

InitThermal ==
    \E g \in ThermalGrids, n \in 1 .. MaxSweeps : \E h \in ThermalFields(g) :
        thermal = [pc |-> "sweep", width |-> g[1], height |-> g[2],
                   iterations |-> n, threshold |-> ThermalThreshold, iter |-> 0,
                   heightField |-> h, temp |-> [i \in DOMAIN h |-> 0],
                   visited |-> {}]

\* the head of the loop over iter: temp.set(heightField), or the return
ThermalBeginSweep ==
    /\ thermal.pc = "sweep"
    /\ thermal' = IF thermal.iter < thermal.iterations
                  THEN [thermal EXCEPT !.temp = thermal.heightField,
                                       !.visited = {}, !.pc = "cells"]
                  ELSE [thermal EXCEPT !.pc = "done"]
    /\ UNCHANGED notThermalVars

\* one pass of the loops over y and x
ThermalCell ==
    /\ thermal.pc = "cells"
    /\ \E idx \in interiorCells(thermal.width, thermal.height) \ thermal.visited :
          thermal' = [thermal EXCEPT
              !.temp[idx] = @ - thermalLoss(sweepReads(thermal.heightField, thermal.temp),
                                            thermal.width, idx, thermal.threshold),
              !.visited = @ \cup {idx}]
    /\ UNCHANGED notThermalVars

\* the end of the loops over y and x: heightField.set(temp), iter++
ThermalEndSweep ==
    /\ thermal.pc = "cells"
    /\ thermal.visited = interiorCells(thermal.width, thermal.height)
    /\ thermal' = [thermal EXCEPT !.heightField = thermal.temp,
                                  !.iter = @ + 1, !.pc = "sweep"]
    /\ UNCHANGED notThermalVars

NextThermal ==
    \/ ThermalBeginSweep
    \/ ThermalCell
    \/ ThermalEndSweep

(***************************************************************************)
(* PiecewiseLinearCurve: constructor, evaluate                             *)
(*                                                                         *)
(* A control point is <<x, y>> in units, 1.0 being Unit; the points given  *)
(* have distinct x.                                                        *)
(***************************************************************************)
\* points.sort((a, b) => a.x - b.x)
sortByX(points) == SortSeq(points, LAMBDA a, b : a[1] < b[1])

\* the test before console.warn('Curve should start at x=0 and end at x=1')
shouldWarn(points) == points[1][1] # 0 \/ points[Len(points)][1] # Unit

CurveXs == {0, 20, 60, Unit}

CurveYs == {0, 50, Unit}

MaxPoints == 3

\* the arrays of 2 .. MaxPoints control points with distinct x
CurvePoints ==
    UNION {{p \in [1 .. n -> CurveXs \X CurveYs] :
               \A a, b \in 1 .. n : a # b => p[a][1] # p[b][1]} : n \in 2 .. MaxPoints}

\* the arguments of evaluate: below 0, inside [0, 1], above 1
CurveArguments == {-10, 0, 10, 20, 40, 60, 80, Unit, Unit + 10}

IdleCurve == curve = [pc |-> "idle"]

InitCurve == \E p \in CurvePoints : curve = [pc |-> "new", given |-> p]

\* new PiecewiseLinearCurve(points)
NewCurve ==
    /\ curve.pc = "new"
    /\ curve' = [pc |-> "ready", points |-> sortByX(curve.given),
                 warned |-> shouldWarn(sortByX(curve.given)), x |-> 0, y |-> 0,
                 evaluated |-> FALSE]
    /\ UNCHANGED notCurveVars

\* curve.evaluate(x)
Evaluate ==
    /\ curve.pc = "ready"
    /\ \E x \in CurveArguments :
          curve' = [curve EXCEPT !.x = x, !.y = evaluate(curve.points, x),
                                 !.evaluated = TRUE]
    /\ UNCHANGED notCurveVars

NextCurve ==
    \/ NewCurve
    \/ Evaluate

(***************************************************************************)
(* rng.js: LCG.next and LCG.nextInt in the arithmetic of JavaScript        *)
(*                                                                         *)
(* A number is a double.  A whole number below 2^64 is kept as four 16-bit *)
(* limbs <<l3, l2, l1, l0>>; a double holds 53 significant bits, so a      *)
(* product or sum of 2^53 or more is rounded to the nearest multiple of    *)
(* the weight of its 53rd bit, ties to even.                               *)
(***************************************************************************)
Limbs(word) == <<0, 0, word[1], word[2]>>

\* the exact product of two 32-bit words
mulLimbs(x, y) ==
    LET ll == MulFull16(x[2], y[2])
        lh == MulFull16(x[2], y[1])
        hl == MulFull16(x[1], y[2])
        hh == MulFull16(x[1], y[1])
        s1 == ll[1] + lh[2] + hl[2]
        s2 == lh[1] + hl[1] + hh[2] + (s1 \div Half)
    IN  <<hh[1] + (s2 \div Half), s2 % Half, s1 % Half, ll[2]>>

\* the exact sum, below 2^64
addLimbs(a, b) ==
    LET s0 == a[4] + b[4]
        s1 == a[3] + b[3] + (s0 \div Half)
        s2 == a[2] + b[2] + (s1 \div Half)
    IN  <<a[1] + b[1] + (s2 \div Half), s2 % Half, s1 % Half, s0 % Half>>

\* a < b
lessLimbs(a, b) ==
    \E k \in 1 .. 4 : a[k] < b[k] /\ \A j \in 1 .. k - 1 : a[j] = b[j]

\* the number of bits of a limb
bitLength(l) == CHOOSE n \in 0 .. 16 : l < 2 ^ n /\ (n = 0 \/ l >= 2 ^ (n - 1))

\* the double nearest to a whole number: itself below 2^53 (l3 < 32), else
\* rounded in the bits beyond the 53rd, ties to even
roundToDouble(a) ==
    IF a[1] < 32 THEN a
    ELSE LET ulp == 2 ^ (bitLength(a[1]) - 5)
             rest == a[4] % ulp
             down == <<a[1], a[2], a[3], a[4] - rest>>
             up == rest * 2 > ulp \/ (rest * 2 = ulp /\ (a[4] \div ulp) % 2 = 1)
         IN  IF up THEN addLimbs(down, <<0, 0, 0, ulp>>) ELSE down

\* x >>> 0
toUint32(a) == MkWord(a[3], a[4])

\* next(): this.state = (this.state * 1664525 + 1013904223) >>> 0
nextState(state) ==
    toUint32(roundToDouble(addLimbs(roundToDouble(mulLimbs(state, LcgMul)),
                                    Limbs(LcgInc))))

\* nextInt(min, max) for 0 <= min < max < min + 2^15, state being the state
\* after next(): Math.floor(next() * (max - min)) + min
nextIntBetween(state, min, max) ==
    roundToDouble(addLimbs(<<0, 0, 0, FloorScaled(state, (max[3] - min[3]) * Half
                                                            + max[4] - min[4])>>,
                           min))

\* 2^53, above which not every whole number is a double
TwoTo53 == <<32, 0, 0, 0>>

LcgSeeds ==
    {MkWord(0, 0), MkWord(0, 1), MkWord(0, 12345), MkWord(32767, 65535),
     MkWord(32768, 0), MkWord(65535, 65535)}

\* the ranges <<min, max>> asked of nextInt: small ones, and one of two
\* whole numbers above 2^53
LcgRanges ==
    {<<Limbs(MkWord(0, 0)), Limbs(MkWord(0, 1))>>,
     <<Limbs(MkWord(0, 0)), Limbs(MkWord(0, 6))>>,
     <<Limbs(MkWord(0, 3)), Limbs(MkWord(0, 10))>>,
     <<Limbs(MkWord(1, 65530)), Limbs(MkWord(2, 4))>>,
     <<<<32, 0, 0, 2>>, <<32, 0, 0, 4>>>>}

MaxLcgDraws == 8

IdleLcg == lcg = [pc |-> "idle"]

\* new LCG(seed)
InitLcg ==
    \E seed \in LcgSeeds :
        lcg = [pc |-> "new", state |-> seed, prev |-> seed, draws |-> 0,
               min |-> Limbs(MkWord(0, 0)), max |-> Limbs(MkWord(0, 0)),
               result |-> Limbs(MkWord(0, 0))]

\* next()
LcgNext ==
    /\ lcg.pc # "idle"
    /\ lcg.draws < MaxLcgDraws
    /\ lcg' = [lcg EXCEPT !.pc = "next", !.prev = lcg.state,
                          !.state = nextState(@), !.draws = @ + 1]
    /\ UNCHANGED notLcgVars

\* nextInt(min, max)
LcgNextInt ==
    /\ lcg.pc # "idle"
    /\ lcg.draws < MaxLcgDraws
    /\ \E range \in LcgRanges :
          lcg' = [lcg EXCEPT !.pc = "nextInt", !.prev = lcg.state,
                             !.state = nextState(@), !.draws = @ + 1,
                             !.min = range[1], !.max = range[2],
                             !.result = nextIntBetween(nextState(lcg.state),
                                                       range[1], range[2])]
    /\ UNCHANGED notLcgVars

NextLcg ==
    \/ LcgNext
    \/ LcgNextInt

InitSpecRNG == InitRng /\ IdleSea /\ IdlePoisson /\ IdleTrees /\ IdleGen /\ IdleValidation /\ IdleSpawn /\ IdleStrat /\ IdleCoverage /\ IdleErosion /\ IdleLakes /\ IdleFlow /\ IdleThermal /\ IdleCurve /\ IdleLcg

SpecRNG == InitSpecRNG /\ [][NextRng]_vars

InitSpecSea == InitSea /\ IdleRng /\ IdlePoisson /\ IdleTrees /\ IdleGen /\ IdleValidation /\ IdleSpawn /\ IdleStrat /\ IdleCoverage /\ IdleErosion /\ IdleLakes /\ IdleFlow /\ IdleThermal /\ IdleCurve /\ IdleLcg

SpecSea == InitSpecSea /\ [][NextSea]_vars

InitSpecPoisson == InitPoisson /\ IdleRng /\ IdleSea /\ IdleTrees /\ IdleGen /\ IdleValidation /\ IdleSpawn /\ IdleStrat /\ IdleCoverage /\ IdleErosion /\ IdleLakes /\ IdleFlow /\ IdleThermal /\ IdleCurve /\ IdleLcg

SpecPoisson == InitSpecPoisson /\ [][NextPoisson]_vars

\* the call runs on: one thread executes the loops, nothing else is scheduled
SpecPoissonFair == SpecPoisson /\ WF_vars(NextPoisson)

InitSpecTrees == InitTrees /\ IdleRng /\ IdleSea /\ IdleGen /\ IdleValidation /\ IdleSpawn /\ IdleStrat /\ IdleCoverage /\ IdleErosion /\ IdleLakes /\ IdleFlow /\ IdleThermal /\ IdleCurve /\ IdleLcg

SpecTrees == InitSpecTrees /\ [][NextTrees]_vars

InitSpecGenerate == InitGen /\ IdleRng /\ IdleSea /\ IdlePoisson /\ IdleTrees /\ IdleValidation /\ IdleSpawn /\ IdleStrat /\ IdleCoverage /\ IdleErosion /\ IdleLakes /\ IdleFlow /\ IdleThermal /\ IdleCurve /\ IdleLcg

SpecGenerate == InitSpecGenerate /\ [][NextGen]_vars

InitSpecValidation == InitValidation /\ IdleRng /\ IdleSea /\ IdlePoisson /\ IdleTrees /\ IdleGen /\ IdleSpawn /\ IdleStrat /\ IdleCoverage /\ IdleErosion /\ IdleLakes /\ IdleFlow /\ IdleThermal /\ IdleCurve /\ IdleLcg

SpecValidation == InitSpecValidation /\ [][NextValidation]_vars

InitSpecSpawn == InitSpawn /\ IdleRng /\ IdleSea /\ IdlePoisson /\ IdleTrees /\ IdleGen /\ IdleValidation /\ IdleStrat /\ IdleCoverage /\ IdleErosion /\ IdleLakes /\ IdleFlow /\ IdleThermal /\ IdleCurve /\ IdleLcg

SpecSpawn == InitSpecSpawn /\ [][NextSpawn]_vars

InitSpecStrat == InitStrat /\ IdleRng /\ IdleSea /\ IdlePoisson /\ IdleTrees /\ IdleGen /\ IdleValidation /\ IdleSpawn /\ IdleCoverage /\ IdleErosion /\ IdleLakes /\ IdleFlow /\ IdleThermal /\ IdleCurve /\ IdleLcg

SpecStrat == InitSpecStrat /\ [][NextStrat]_vars

InitSpecCoverage == InitCoverage /\ IdleRng /\ IdleSea /\ IdlePoisson /\ IdleTrees /\ IdleGen /\ IdleValidation /\ IdleSpawn /\ IdleStrat /\ IdleErosion /\ IdleLakes /\ IdleFlow /\ IdleThermal /\ IdleCurve /\ IdleLcg

SpecCoverage == InitSpecCoverage /\ [][NextCoverage]_vars

InitSpecErosion == InitErosion /\ IdleRng /\ IdleSea /\ IdlePoisson /\ IdleTrees /\ IdleGen /\ IdleValidation /\ IdleSpawn /\ IdleStrat /\ IdleCoverage /\ IdleLakes /\ IdleFlow /\ IdleThermal /\ IdleCurve /\ IdleLcg

SpecErosion == InitSpecErosion /\ [][NextErosion]_vars

InitSpecLakes == InitLakes /\ IdleRng /\ IdleSea /\ IdlePoisson /\ IdleTrees /\ IdleGen /\ IdleValidation /\ IdleSpawn /\ IdleStrat /\ IdleCoverage /\ IdleErosion /\ IdleFlow /\ IdleThermal /\ IdleCurve /\ IdleLcg

SpecLakes == InitSpecLakes /\ [][NextLakes]_vars

InitSpecFlow == InitFlow /\ IdleRng /\ IdleSea /\ IdlePoisson /\ IdleTrees /\ IdleGen /\ IdleValidation /\ IdleSpawn /\ IdleStrat /\ IdleCoverage /\ IdleErosion /\ IdleLakes /\ IdleThermal /\ IdleCurve /\ IdleLcg

SpecFlow == InitSpecFlow /\ [][NextFlow]_vars

InitSpecThermal == InitThermal /\ IdleRng /\ IdleSea /\ IdlePoisson /\ IdleTrees /\ IdleGen /\ IdleValidation /\ IdleSpawn /\ IdleStrat /\ IdleCoverage /\ IdleErosion /\ IdleLakes /\ IdleFlow /\ IdleCurve /\ IdleLcg

SpecThermal == InitSpecThermal /\ [][NextThermal]_vars

InitSpecCurve == InitCurve /\ IdleRng /\ IdleSea /\ IdlePoisson /\ IdleTrees /\ IdleGen /\ IdleValidation /\ IdleSpawn /\ IdleStrat /\ IdleCoverage /\ IdleErosion /\ IdleLakes /\ IdleFlow /\ IdleThermal /\ IdleLcg

SpecCurve == InitSpecCurve /\ [][NextCurve]_vars

InitSpecLcg == InitLcg /\ IdleRng /\ IdleSea /\ IdlePoisson /\ IdleTrees /\ IdleGen /\ IdleValidation /\ IdleSpawn /\ IdleStrat /\ IdleCoverage /\ IdleErosion /\ IdleLakes /\ IdleFlow /\ IdleThermal /\ IdleCurve

SpecLcg == InitSpecLcg /\ [][NextLcg]_vars

C2_ForestLeavesTerrainAlone ==
    (gen # <<>> /\ \A k \in Instances : gen[k].pc = "returned") =>
        ([gen[1].config EXCEPT !.FOREST_PERCENTAGE = gen[2].config.FOREST_PERCENTAGE]
                = gen[2].config
            => /\ gen[1].elevation = gen[2].elevation
               /\ gen[1].seaLevel = gen[2].seaLevel)

\* both have returned from configurations that differ in FOREST_PERCENTAGE
\* only, with lakes carved into a terrain that is not flat
C2_Witness ==
    /\ gen # <<>>
    /\ \A k \in Instances : gen[k].pc = "returned"
    /\ gen[1].config.FOREST_PERCENTAGE # gen[2].config.FOREST_PERCENTAGE
    /\ [gen[1].config EXCEPT !.FOREST_PERCENTAGE = gen[2].config.FOREST_PERCENTAGE]
           = gen[2].config
    /\ gen[1].config.WATER_PERCENTAGE > 0
    /\ gen[1].cellsCarved > 0
    /\ SeqMin(gen[1].elevation) < SeqMax(gen[1].elevation)
    /\ gen[1].elevation = gen[2].elevation

WATER_TOLERANCE_TENTHS == 1     \* 0.1 percentage points

\* |cells / total * 100 - p| <= WATER_TOLERANCE, cleared of fractions
WithinTolerance(cells, total, p) ==
    /\ cells * 1000 - p * 10 * total <= WATER_TOLERANCE_TENTHS * total
    /\ p * 10 * total - cells * 1000 <= WATER_TOLERANCE_TENTHS * total

\* C3: solved for 15%, the cells at or below the sea level are within
\* WATER_TOLERANCE of 15% of the field.
C3_ExactCoverageAt15 ==
    solved[15] # Unsolved =>
        WithinTolerance(CellsAtOrBelow(solved[15].field, solved[15].seaLevel),
                        Len(field0), 15)

\* C4: any two distinct points of the samples are at least minDistance apart.
C4_MinimumSpacing ==
    ps.pc # "idle" =>
        \A a, b \in DOMAIN ps.samples :
            a # b => DistSq(ps.samples[a], ps.samples[b]) >= ps.rSq

\* a finished call that returned at least three points under a predicate
C4_Witness ==
    /\ ps.pc = "done"
    /\ ps.hasMask
    /\ Len(ps.samples) >= 3

\* the slope of the cell holding the placement p
SlopeAtPlacement(p) ==
    calculateSlopes(terrainData)[CellIndex(terrainData, <<p.x, p.z>>)]

\* C5: every placement generateTreePositions returns has a sampled height
\* strictly above seaLevel + TREE_BEACH_BUFFER and strictly below
\* TREE_MAX_HEIGHT, and the slope of its cell is strictly below TREE_MAX_SLOPE.
C5_PlacementsWithinConstraints ==
    trees.pc = "done" =>
        \A k \in DOMAIN trees.result :
            LET p == trees.result[k]
            IN  /\ p.height > HeightScale * (terrainData.seaLevel
                                   + OrDefault(config.TREE_BEACH_BUFFER, 2))
                /\ p.height < HeightScale * OrDefault(config.TREE_MAX_HEIGHT, 60)
                /\ SlopeBelow(SlopeAtPlacement(p), OrDefault(config.TREE_MAX_SLOPE, 35))

C7_ZeroPercentLeavesNoWater ==
    solved[0] # Unsolved =>
        \A i \in DOMAIN solved[0].field :
            solved[0].field[i] * SeaScale > solved[0].seaLevel

\* the 0% solve ran and raised some, but not all, cells
C7_Witness ==
    /\ solved[0] # Unsolved
    /\ solved[0].raised > 0
    /\ solved[0].raised < Len(field0)

\* C8: with FOREST_PERCENTAGE = 0, generateTreePositions returns an empty list,
\* never calls the Poisson sampler and draws nothing from the tree stream.
C8_NoForestNoSampling ==
    (trees.pc # "idle" /\ config.FOREST_PERCENTAGE = 0) =>
        /\ trees.pc \in {"called", "done"}
        /\ ps.pc = "idle"
        /\ TreeStreamDraws = 0
        /\ trees.pc = "done" => (trees.result = <<>> /\ trees.samplerCalls = 0)

\* a call with suitable cells and no relaxation that returned because of
\* FOREST_PERCENTAGE = 0
C8_Witness ==
    /\ trees.pc = "done"
    /\ config.FOREST_PERCENTAGE = 0
    /\ trees.suitableCells > 0
    /\ trees.relaxPasses = 0
    /\ trees.result = <<>>

\* C9: with no strictly suitable cell, generateTreePositions makes exactly one
\* relaxation pass, whose height and slope bounds admit every cell the strict
\* height and slope bounds admit, and returns an empty list if the relaxed
\* mask has no suitable cell either.
C9_OneWiderRelaxationPass ==
    LET slopes == calculateSlopes(terrainData)
        strict == createTreeSuitabilityMask(terrainData, slopes, config)
        relaxed == relaxedMask(terrainData, slopes, config)
    IN  (trees.pc \in {"sampling", "done"} /\ CountSuitable(strict) = 0) =>
            /\ trees.relaxPasses = 1
            /\ \A i \in DOMAIN terrainData.elevation :
                   /\ strictHeightOk(terrainData.elevation[i], terrainData.seaLevel, config)
                          => relaxedHeightOk(terrainData.elevation[i], terrainData.seaLevel, config)
                   /\ strictSlopeOk(slopes[i], config) => relaxedSlopeOk(slopes[i])
            /\ CountSuitable(relaxed) = 0 => (trees.pc = "done" /\ trees.result = <<>>)

\* C10: every live stream is in the LCG state reached from
\* hashSeed(masterSeed, label) after exactly the draws made on that label
\* since it was created or last reset; a label's state depends on nothing else.
C10_StreamStateIsSeedPlusDraws ==
    \A l \in Labels :
        rng.streams[l] # None =>
            /\ rng.subSeeds[l] = hashSeed(rng.masterSeed, l)
            /\ rng.streams[l] = LcgIter(hashSeed(rng.masterSeed, l), draws[l])

\* two streams have drawn different numbers of times and one was requested again
C10_Witness ==
    /\ rng.streams["terrain"] # None /\ draws["terrain"] = 2
    /\ rng.streams["lakes"] # None /\ draws["lakes"] = 1
    /\ rng.streams["terrain"] # hashSeed(rng.masterSeed, "terrain")

\* C11: under one master seed, two streams of different labels have different
\* sub-seeds, so they never produce the same sequence.
C11_DistinctLabelsDistinctStreams ==
    \A a \in Labels : \A b \in Labels \ {a} :
        (rng.subSeeds[a] # None /\ rng.subSeeds[b] # None) =>
            /\ rng.subSeeds[a] # rng.subSeeds[b]
            /\ draws[a] = draws[b] => rng.streams[a] # rng.streams[b]

\* C12: with FOREST_PERCENTAGE > 0, generateTreePositions returns exactly
\* floor(suitableCells * FOREST_PERCENTAGE / 100 / 3) placements.
C12_CountEqualsTarget ==
    (trees.pc = "done" /\ config.FOREST_PERCENTAGE > 0) =>
        Len(trees.result) = (trees.suitableCells * config.FOREST_PERCENTAGE) \div 300

\* C13: for a field of non-negative heights and a target in [0, 100], the
\* solved sea level lies between 0 and the highest cell of the field.
C13_SeaLevelWithinField ==
    \A p \in Targets :
        solved[p] # Unsolved =>
            /\ 0 <= solved[p].seaLevel
            /\ solved[p].seaLevel <= SeqMax(solved[p].field) * SeaScale

\* C14: generate() never returns a terrain built from a configuration with
\* invalid dimensions (the call is to end in an error instead).
C14_InvalidDimensionsFailFast ==
    gen # <<>> =>
        \A k \in Instances :
            gen[k].pc = "returned" =>
                (gen[k].config.MAP_WIDTH > 0 /\ gen[k].config.MAP_HEIGHT > 0)

\* C15: a cell is marked suitable exactly when its height is above
\* seaLevel + beachBuffer, its height is below maxHeight and its slope is
\* below maxSlope, all three strictly, in the mask of the slope module and in
\* the mask generateTreePositions builds.
C15_SuitableIffStrictlyInside ==
    trees.pc \notin {"idle", "called"} =>
        LET slopes == calculateSlopes(terrainData)
            constraints == [beachBuffer |-> OrDefault(config.TREE_BEACH_BUFFER, 2),
                            maxHeight |-> OrDefault(config.TREE_MAX_HEIGHT, 60),
                            maxSlope |-> OrDefault(config.TREE_MAX_SLOPE, 35)]
            Inside(i) ==
                /\ terrainData.elevation[i] > terrainData.seaLevel + constraints.beachBuffer
                /\ terrainData.elevation[i] < constraints.maxHeight
                /\ SlopeBelow(slopes[i], constraints.maxSlope)
        IN  \A i \in 1 .. Len(terrainData.elevation) :
                /\ slopeModuleSuitabilityMask(terrainData, slopes, constraints)[i] = 1
                       <=> Inside(i)
                /\ createTreeSuitabilityMask(terrainData, slopes, config)[i] = 1
                       <=> Inside(i)

\* C16: validateTreePositions returns the input with the entries at or below
\* sea level and those in the beach band above it left out: the entries kept
\* are the others, in the input's order, each with its x and z; the two
\* removed counts and the number kept add up to the input's length.
C16_ValidationIsPureFilter ==
    validation.pc = "done" =>
        LET td == validation.terrain
            Sampled(p) == getHeightAt(<<p.x, p.z>>, td)
            Water(p) == Sampled(p) <= td.seaLevel * HeightScale
            Beach(p) == /\ Sampled(p) > td.seaLevel * HeightScale
                        /\ Sampled(p) <= (td.seaLevel + 4) * HeightScale
            Kept(p) == ~Water(p) /\ ~Beach(p)
            kept == SelectSeq(validation.positions, Kept)
        IN  /\ Len(validation.result) = Len(kept)
            /\ \A j \in 1 .. Len(kept) :
                   /\ validation.result[j].x = kept[j].x
                   /\ validation.result[j].z = kept[j].z
            /\ validation.removedWater = Len(SelectSeq(validation.positions, Water))
            /\ validation.removedBeach = Len(SelectSeq(validation.positions, Beach))
            /\ validation.removedWater + validation.removedBeach + Len(validation.result)
                   = Len(validation.positions)

\* a call that removed one entry as water and one at the very top of the
\* beach band, and kept the entry between them
C16_Witness ==
    /\ validation.pc = "done"
    /\ Len(validation.positions) = 3
    /\ validation.removedWater = 1
    /\ validation.removedBeach = 1
    /\ Len(validation.result) = 1
    /\ validation.result[1].x = validation.positions[2].x
    /\ getHeightAt(<<validation.positions[3].x, validation.positions[3].z>>,
                   validation.terrain) = 4 * HeightScale

\* C17: two renderers handed the same terrain and configuration place the
\* same trees in the same order.
C17_SameSeedSameTrees ==
    (spawn # <<>> /\ \A k \in Instances : spawn.run[k].pc = "done") =>
        spawn.run[1].result = spawn.run[2].result

\* C18: no two points returned by stratifiedPoissonSampling are closer than
\* minDistance, whether they come from one sub-region or from two.
C18_StratifiedMinimumSpacing ==
    strat.pc = "done" =>
        \A i, j \in 1 .. Len(strat.allSamples) :
            i # j => DistSq(strat.allSamples[i], strat.allSamples[j]) >= strat.rSq

\* C19: in the metrics of a generate() that has returned, waterCoverage.validated
\* and invariants.waterCoverageMatch have the same truth value.
C19_ValidatedIffCoverageMatch ==
    coverage.pc = "returned" => (coverage.validated <=> coverage.waterCoverageMatch)

\* C20: once an erosion iteration has ended, every cell of the height field
\* lies in [0, 1].
C20_ErodedHeightsNormalized ==
    (erosion.pc \in {"flow", "done"} /\ erosion.iter >= 1) =>
        \A i \in DOMAIN erosion.heightField :
            /\ erosion.heightField[i] >= 0
            /\ erosion.heightField[i] <= Unit * 100

\* C21: every value of the elevation array generate() returns lies in
\* [0, ELEVATION_SCALE].
C21_ReturnedHeightsWithinScale ==
    gen # <<>> => \A k \in Instances :
        gen[k].pc = "returned" =>
            \A i \in DOMAIN gen[k].elevation :
                /\ gen[k].elevation[i] >= 0
                /\ gen[k].elevation[i] <= gen[k].config.ELEVATION_SCALE * Unit

\* C22: when _addLakes has carved its lakes, their number, which is the
\* number of centres the sampler returned, equals estimatedLakeCount,
\* ceil(targetWaterCells / (pi * (LAKE_MIN_SPACING / 2)^2)).
C22_LakeCountIsEstimate ==
    (lakes.pc = "done" /\ lakes.WATER_PERCENTAGE > 0) =>
        /\ Len(lakes.carved) = Len(lakes.lakeCenters)
        /\ Len(lakes.lakeCenters) = lakes.estimatedLakeCount

\* C23: a step of _carveLake raises no cell; the one cell it may change is
\* the cell the loop is at, and only if that cell is strictly inside the
\* lake's outline and max(0, SEA_LEVEL - depth * max(0, falloff + edgeNoise))
\* is strictly below its height, which then becomes exactly that value; a
\* cell at or above 0 stays at or above 0.
C23_CarvingOnlyLowers ==
    [][\A k \in DOMAIN gen :
          gen[k].pc = "carve" =>
              \A i \in DOMAIN gen[k].elevation :
                  LET target == targetHeight(gen[k].config, gen[k].width, gen[k].lake, i,
                                             LcgStep(gen[k].rng.streams["lakes"]))
                  IN  /\ gen'[k].elevation[i] <= gen[k].elevation[i]
                      /\ gen'[k].elevation[i] # gen[k].elevation[i] =>
                            /\ i = gen[k].cursor
                            /\ insideLake(gen[k].width, gen[k].lake, i)
                            /\ target < gen[k].elevation[i]
                            /\ gen'[k].elevation[i] = target
                      /\ gen[k].elevation[i] >= 0 => gen'[k].elevation[i] >= 0]_vars

\* _carveLake has lowered a cell, has left another alone, and goes on
C23_Witness ==
    /\ gen # <<>>
    /\ \E k \in Instances :
          /\ gen[k].pc = "carve"
          /\ gen[k].cellsCarved > 0
          /\ gen[k].cellsCarved < gen[k].cursor - 1

C25_SamplesInsideAndSuitable ==
    /\ [](\A k \in DOMAIN ps.samples :
             InBounds(ps, ps.samples[k]) /\ ~MaskRejects(ps, ps.samples[k]))
    /\ [][/\ Len(ps'.samples) >= Len(ps.samples)
          /\ \A k \in DOMAIN ps.samples : ps'.samples[k] = ps.samples[k]]_vars
    /\ []((ps.pc = "done" /\ ps.hasMask /\ ps.allowed = {}) => ps.samples = <<>>)

\* the flow the cells routing to cell c hold
C26_Inflow(c) ==
    LET n == Len(d8.heights)
        sum[j \in 0 .. n] ==
            IF j = 0 THEN 0
            ELSE sum[j - 1] + IF lowestNeighbor(d8.heights, d8.width, j) = c
                              THEN d8.flow[j] ELSE 0
    IN  sum[n]

\* C26: whichever way cells of one height are ordered, _calculateFlow ends
\* with the flow the stable order gives, and each cell's flow is 1 plus the
\* flow of the cells routing to it.
C26_FlowOrderIndependent ==
    d8.pc = "done" =>
        /\ d8.flow = calculateFlow(d8.heights, d8.width)
        /\ \A c \in DOMAIN d8.flow : d8.flow[c] = 1 + C26_Inflow(c)

\* two cells of one height were processed against their index order, each
\* had a lower neighbour, and some cell gathered the flow of at least two
C26_Witness ==
    /\ d8.pc = "done"
    /\ \E a, b \in DOMAIN d8.order :
          /\ a < b
          /\ d8.order[a] > d8.order[b]
          /\ d8.heights[d8.order[a]] = d8.heights[d8.order[b]]
          /\ lowestNeighbor(d8.heights, d8.width, d8.order[a]) # 0
          /\ lowestNeighbor(d8.heights, d8.width, d8.order[b]) # 0
    /\ \E c \in DOMAIN d8.flow : d8.flow[c] >= 3

\* C27: the heights a sweep of applyThermalErosion leaves are those computed,
\* cell by cell, from the heights the sweep began with, whatever the order of
\* the cells; no border cell changes and no cell goes up.
C27_SweepReadsStartHeights ==
    [][thermal.pc = "cells" =>
          \A idx \in DOMAIN thermal.heightField :
              /\ thermal'.heightField[idx] <= thermal.heightField[idx]
              /\ idx \notin interiorCells(thermal.width, thermal.height) =>
                    thermal'.heightField[idx] = thermal.heightField[idx]
              /\ thermal'.pc = "sweep" =>
                    thermal'.heightField[idx] =
                        IF idx \in interiorCells(thermal.width, thermal.height)
                        THEN thermal.heightField[idx]
                                 - thermalLoss(thermal.heightField, thermal.width,
                                               idx, thermal.threshold)
                        ELSE thermal.heightField[idx]]_vars

\* a sweep has ended in which two adjacent cells, the left one the higher,
\* were both lowered
C27_Witness ==
    /\ thermal.pc = "sweep"
    /\ thermal.iter > 0
    /\ \E idx \in interiorCells(thermal.width, thermal.height) :
          /\ idx + 1 \in interiorCells(thermal.width, thermal.height)
          /\ thermal.heightField[idx] < 96
          /\ thermal.heightField[idx] > 48
          /\ thermal.heightField[idx + 1] < 48
          /\ thermal.heightField[idx + 1] > 0

\* C28: two generators with one SEED whose configurations differ in
\* NOISE_MACRO alone give the meso band the same seed, and the micro band
\* the same seed.
C28_BandSeedsIndependent ==
    (/\ gen # <<>>
     /\ [gen[1].config EXCEPT !.NOISE_MACRO = gen[2].config.NOISE_MACRO] = gen[2].config
     /\ \A k \in Instances : gen[k].pc = "returned")
        => /\ gen[1].seeds["meso"] = gen[2].seeds["meso"]
           /\ gen[1].seeds["micro"] = gen[2].seeds["micro"]

\* C29: a curve whose points do not run from x = 0 to x = 1 is constructed
\* with a warning, and evaluate, having clamped x to [0, 1], gives the first
\* point's y below the first point and the last point's y above the last.
C29_EvaluationClampsToEndPoints ==
    (curve.pc = "ready" /\ curve.evaluated) =>
        LET x == Clamp(curve.x, 0, Unit)
            first == curve.points[1]
            last == curve.points[Len(curve.points)]
        IN  /\ curve.warned <=> (first[1] # 0 \/ last[1] # Unit)
            /\ x < first[1] => curve.y = first[2]
            /\ x > last[1] => curve.y = last[2]

====
